---- MODULE Spec2Model ----
(***************************************************************************)
(* The asset retriever of pantone-scraper: ImageDownloader                 *)
(* (src/pantone-scraper/src/scraper/downloader.py).                        *)
(*                                                                         *)
(* One ImageDownloader object is modelled together with its download       *)
(* directory.  download_all_async creates one _download_single coroutine   *)
(* per list element and joins them with asyncio.gather; the coroutines run *)
(* on one event loop, so the code between two awaits is one atomic step.   *)
(* The awaits of _download_single are: the semaphore acquire (line 127),   *)
(* session.get (line 149) and response.read (line 151).                    *)
(***************************************************************************)
EXTENDS Integers, Sequences, FiniteSets, TLC

(* ------------------------------ bounds --------------------------------- *)

\* Number of urls handed to download_all_async in one run of the process,
\* summed over its calls.
MaxTasks == 3

\* Largest configured value of concurrent_downloads.
MaxCap == 2

\* Number of urls handed to download_all_async, summed over its calls, in
\* the runs whose termination is checked.
MaxLiveTasks == 2

\* Number of successive calls of _get_unique_filepath that are followed.
MaxProbes == 3

\* Largest suffix number of a file that is in the directory before the
\* first of these calls.
MaxSuffix == 2

\* Number of pieces the path of a url given to _is_valid_image is made of.
MaxPieces == 3

\* Number of elements in the body of a parsed document.
MaxNodes == 2

\* The most records main holds when it reaches the download block.
MaxBrands == 2

\* The most calls of download_single_sync in a run.
MaxCalls == 3

(* ------------------------------ values --------------------------------- *)

\* The urls of the runs: two with the same last path segment on different
\* hosts, and one whose path ends in a segment without a dot.
Urls ==
  { [host |-> "a.example", name |-> "x", ext |-> "jpg"],
    [host |-> "b.example", name |-> "x", ext |-> "jpg"],
    [host |-> "c.example", name |-> "gallery", ext |-> ""] }

\* An empty dict.
EmptyMap == [u \in {} |-> 0]

\* Python's None as a returned path.
None == [base |-> "None", hash |-> <<>>, ext |-> "", n |-> 0]

\* The writer of a file that was in the directory before the process began.
PriorRun == [host |-> "prior-run", name |-> "", ext |-> ""]

\* hashlib.md5(url.encode()).hexdigest()[:12]: a token determined by the url.
Md5Prefix(url) == <<url.host, url.name>>

\* _get_filename_from_url: the last path segment, or image_<hash>.jpg when
\* that segment is empty or has no dot.  A filename is kept as the stem and
\* extension os.path.splitext gives for it.
GetFilenameFromUrl(url) ==
  IF url.name = "" \/ url.ext = ""
    THEN [base |-> "image", hash |-> Md5Prefix(url), ext |-> "jpg"]
    ELSE [base |-> url.name, hash |-> <<>>, ext |-> url.ext]

\* download_dir / filename (n = 0) and download_dir / f"{name}_{n}{ext}".
PathOf(filename, n) ==
  [base |-> filename.base, hash |-> filename.hash, ext |-> filename.ext, n |-> n]

VARIABLES
  concurrent_downloads, \* config.concurrent_downloads
  files,                \* the download directory: path -> content
  downloaded_count,     \* self.downloaded_count
  failed_count,         \* self.failed_count
  download_history,     \* self._download_history: url -> path
  phase,                \* "idle", or "running" inside download_all_async
  urls,                 \* the list given to the current or last call
  tasks,                \* the _download_single coroutines of that call
  sem,                  \* the semaphore's _value
  result_map,           \* the mapping the last call returned
  spawned,              \* coroutines created so far, over all calls
  last,                 \* the operation that finished last
  snap                  \* the retriever's state when the current call began

\* The page parser (scraper/parser.py) and the script that drives parser and
\* downloader (main.py) stand beside the downloader.
VARIABLES
  soup,                 \* the document given to parse_designer_page
  containers,           \* parse_designer_page's containers, as places in soup
  tier,                 \* the branch it took: 1, 2, or 0 before it ran
  brands,               \* what parse_designer_page returned
  all_brands,           \* main's all_brands: the DesignerBrand objects
  main_pc,              \* main's position, and its index in the update loop
  returned,             \* the paths _get_unique_filepath returned, in order
  image_url,            \* the url given to _is_valid_image
  valid                 \* <<what _is_valid_image returned>>, <<>> before

\* The state of the downloader and of its directory.
retriever == <<concurrent_downloads, files, downloaded_count, failed_count,
               download_history, phase, urls, tasks, sem, result_map, spawned,
               last, snap>>

\* The state outside the downloader: an operation of ImageDownloader reads
\* and writes none of it.
others == <<soup, containers, tier, brands, all_brands, main_pc, returned,
            image_url, valid>>

vars == <<concurrent_downloads, files, downloaded_count, failed_count,
          download_history, phase, urls, tasks, sem, result_map, spawned,
          last, snap, soup, containers, tier, brands, all_brands, main_pc,
          returned, image_url, valid>>

(* ----------------------------- file system ----------------------------- *)

\* filepath.exists()
Exists(path) == path \in DOMAIN files

\* A probe that looks at one candidate only and takes the one after it.
ProbeOnce(filename, n) ==
  IF Exists(PathOf(filename, n)) THEN PathOf(filename, n + 1)
                                 ELSE PathOf(filename, n)

\* The loop of _get_unique_filepath: filename, then name_1.ext, name_2.ext,
\* ... until a path at which no file exists.
RECURSIVE Probe(_, _)
Probe(filename, n) ==
  IF Exists(PathOf(filename, n)) THEN Probe(filename, n + 1)
                                 ELSE PathOf(filename, n)

GetUniqueFilepath(filename) == Probe(filename, 0)

\* with open(filepath, 'wb') as f: f.write(content)
WriteFile(path, url) == (path :> [of |-> url, whole |-> TRUE]) @@ files

\* open(filepath, 'wb') succeeded and f.write raised: the file exists, cut.
TruncateFile(path, url) == (path :> [of |-> url, whole |-> FALSE]) @@ files

\* The directories a process can start in: empty, or holding x.jpg from an
\* earlier run.
StartDirs ==
  { [p \in S |-> [of |-> PriorRun, whole |-> TRUE]] :
      S \in SUBSET { [base |-> "x", hash |-> <<>>, ext |-> "jpg", n |-> 0] } }

(* ------------------------------ statistics ----------------------------- *)

\* Statistics whose total counts the downloads only.
GetDownloadStatsTotalOfDownloads ==
  [downloaded |-> downloaded_count,
   failed     |-> failed_count,
   total      |-> downloaded_count]

GetDownloadStats ==
  [downloaded |-> downloaded_count,
   failed     |-> failed_count,
   total      |-> downloaded_count + failed_count]

(* ------------------------------- tasks --------------------------------- *)

\* A coroutine of _download_single: its url, the await it stands at, the
\* filepath it resolved, how it ended, whether it called session.get, and
\* whether the unsuffixed file was there when it probed.
NewTask(url) ==
  [url |-> url, pc |-> "waiting", path |-> None, res |-> "none",
   sent |-> FALSE, found |-> FALSE]

\* What _download_single returns as the second component.
Ret(t) == IF t.res \in {"hit", "exists", "saved"} THEN t.path ELSE None

Indices == DOMAIN tasks

InFlight == { i \in Indices : tasks[i].pc \in {"getting", "reading"} }

AllDone == \A i \in Indices : tasks[i].pc = "done"

\* if url in self._download_history
InHistoryNever(url) == FALSE

InHistory(url) == url \in DOMAIN download_history

\* Semaphore.locked() is false: a slot is free.
SlotFreeAlways == TRUE

SlotFree == sem > 0

\* The coroutines are started in list order and the semaphore wakes its
\* waiters first in, first out: a coroutine is admitted after all before it.
IsNext(i) ==
  /\ i \in Indices
  /\ tasks[i].pc = "waiting"
  /\ \A j \in 1..(i - 1) : tasks[j].pc # "waiting"

\* A woken or newly started coroutine runs before the loop handles the next
\* network event, so no response is handled while a coroutine can be admitted.
NoAdmission == ~ (SlotFree /\ \E i \in Indices : tasks[i].pc = "waiting")

\* main has not run, nothing was parsed and no function was called alone.
OthersIdle ==
  /\ soup = [title |-> <<>>, body |-> <<>>]
  /\ containers = <<>>
  /\ tier = 0
  /\ brands = <<>>
  /\ all_brands = <<>>
  /\ main_pc = [at |-> "off", i |-> 0]
  /\ returned = <<>>
  /\ image_url = [site |-> <<>>, path |-> <<>>, query |-> <<>>]
  /\ valid = <<>>

\* ImageDownloader.__init__ in a directory of StartDirs.
NewDownloader ==
  /\ concurrent_downloads \in 1..MaxCap
  /\ files \in StartDirs
  /\ downloaded_count = 0
  /\ failed_count = 0
  /\ download_history = EmptyMap
  /\ phase = "idle"
  /\ urls = <<>>
  /\ tasks = <<>>
  /\ sem = 0
  /\ result_map = EmptyMap
  /\ spawned = 0
  /\ last = "none"
  /\ snap = [history |-> EmptyMap, files |-> files, downloaded |-> 0,
             failed |-> 0]

Init ==
  /\ NewDownloader
  /\ OthersIdle

(* ------------------------- download_all_async -------------------------- *)

\* The non-empty url lists a caller may pass when n urls are left to the run.
UrlLists(n) == UNION { [1..k -> Urls] : k \in 1..n }

\* if not urls: return {}
DownloadNothing ==
  /\ UNCHANGED others
  /\ phase = "idle"
  /\ urls' = <<>>
  /\ tasks' = <<>>
  /\ result_map' = EmptyMap
  /\ last' = "returned"
  /\ snap' = [history |-> download_history, files |-> files,
              downloaded |-> downloaded_count, failed |-> failed_count]
  /\ UNCHANGED <<concurrent_downloads, files, downloaded_count, failed_count,
                 download_history, phase, sem, spawned>>

\* Lines 197-213: the semaphore is created with concurrent_downloads slots
\* and one coroutine is created per element of urls.
StartBatch(list) ==
  /\ UNCHANGED others
  /\ phase = "idle"
  /\ spawned' = spawned + Len(list)
  /\ phase' = "running"
  /\ urls' = list
  /\ tasks' = [i \in DOMAIN list |-> NewTask(list[i])]
  /\ sem' = concurrent_downloads
  /\ result_map' = EmptyMap
  /\ last' = "started"
  /\ snap' = [history |-> download_history, files |-> files,
              downloaded |-> downloaded_count, failed |-> failed_count]
  /\ UNCHANGED <<concurrent_downloads, files, downloaded_count, failed_count,
                 download_history>>

\* Lines 127-149 of _download_single, from the semaphore to session.get.
Begin(i) ==
  /\ UNCHANGED others
  /\ phase = "running"
  /\ IsNext(i)
  /\ SlotFree
  /\ LET url      == tasks[i].url
         filename == GetFilenameFromUrl(url)
         filepath == GetUniqueFilepath(filename)
     IN  IF InHistory(url)
           THEN /\ tasks' = [tasks EXCEPT ![i] =
                       [@ EXCEPT !.pc = "done", !.res = "hit",
                                 !.path = download_history[url]]]
                /\ UNCHANGED <<download_history, sem>>
           ELSE IF Exists(filepath)
             THEN /\ download_history' = (url :> filepath) @@ download_history
                  /\ tasks' = [tasks EXCEPT ![i] =
                         [@ EXCEPT !.pc = "done", !.res = "exists",
                                   !.path = filepath,
                                   !.found = Exists(PathOf(filename, 0))]]
                  /\ UNCHANGED sem
             ELSE /\ tasks' = [tasks EXCEPT ![i] =
                         [@ EXCEPT !.pc = "getting", !.sent = TRUE,
                                   !.path = filepath,
                                   !.found = Exists(PathOf(filename, 0))]]
                  /\ sem' = sem - 1
                  /\ UNCHANGED download_history
  /\ UNCHANGED <<concurrent_downloads, files, downloaded_count, failed_count,
                 phase, urls, result_map, spawned, last, snap>>

\* A failed attempt that ends every coroutine of the call with it.
FailedAbortsAll(i, kind) ==
  [j \in Indices |->
     IF j = i \/ tasks[j].pc # "done"
       THEN [tasks[j] EXCEPT !.pc = "done", !.res = kind, !.path = None]
       ELSE tasks[j]]

\* return url, None: the coroutines after coroutine i has failed.
Failed(i, kind) ==
  [tasks EXCEPT ![i] = [@ EXCEPT !.pc = "done", !.res = kind, !.path = None]]

\* Line 150: the response arrives with status 200, response.read is awaited.
Respond200(i) ==
  /\ UNCHANGED others
  /\ phase = "running"
  /\ NoAdmission
  /\ i \in Indices
  /\ tasks[i].pc = "getting"
  /\ tasks' = [tasks EXCEPT ![i] = [@ EXCEPT !.pc = "reading"]]
  /\ UNCHANGED <<concurrent_downloads, files, downloaded_count, failed_count,
                 download_history, phase, urls, sem, result_map, spawned, last,
                 snap>>

\* A failure that is remembered: the url enters the history with the path
\* that was resolved for it.
RespondNot200Remembered(i) ==
  /\ UNCHANGED others
  /\ phase = "running"
  /\ NoAdmission
  /\ i \in Indices
  /\ tasks[i].pc = "getting"
  /\ tasks' = Failed(i, "non200")
  /\ failed_count' = failed_count + 1
  /\ download_history' = (tasks[i].url :> tasks[i].path) @@ download_history
  /\ sem' = sem + 1
  /\ UNCHANGED <<concurrent_downloads, files, downloaded_count, phase, urls,
                 result_map, spawned, last, snap>>

\* Lines 166-169: any other status.
RespondNot200(i) ==
  /\ UNCHANGED others
  /\ phase = "running"
  /\ NoAdmission
  /\ i \in Indices
  /\ tasks[i].pc = "getting"
  /\ tasks' = Failed(i, "non200")
  /\ failed_count' = failed_count + 1
  /\ sem' = sem + 1
  /\ UNCHANGED <<concurrent_downloads, files, downloaded_count,
                 download_history, phase, urls, result_map, spawned, last, snap>>

\* A failure that leaves the 'async with semaphore' block without giving
\* the slot back.
NetworkRaisesKeepsSlot(i) ==
  /\ UNCHANGED others
  /\ phase = "running"
  /\ NoAdmission
  /\ i \in Indices
  /\ tasks[i].pc \in {"getting", "reading"}
  /\ tasks' = Failed(i, "raised")
  /\ failed_count' = failed_count + 1
  /\ UNCHANGED <<concurrent_downloads, files, downloaded_count,
                 download_history, phase, urls, sem, result_map, spawned, last,
                 snap>>

\* Lines 171-182: asyncio.TimeoutError, aiohttp.ClientError or another
\* exception raised by session.get or by response.read.
NetworkRaises(i) ==
  /\ UNCHANGED others
  /\ phase = "running"
  /\ NoAdmission
  /\ i \in Indices
  /\ tasks[i].pc \in {"getting", "reading"}
  /\ tasks' = Failed(i, "raised")
  /\ failed_count' = failed_count + 1
  /\ sem' = sem + 1
  /\ UNCHANGED <<concurrent_downloads, files, downloaded_count,
                 download_history, phase, urls, result_map, spawned, last, snap>>

\* A save that counts with the value downloaded_count had when the call
\* began: the increment of a coroutine that saved meanwhile is lost.
SaveStaleCount(i) ==
  /\ UNCHANGED others
  /\ phase = "running"
  /\ NoAdmission
  /\ i \in Indices
  /\ tasks[i].pc = "reading"
  /\ files' = WriteFile(tasks[i].path, tasks[i].url)
  /\ downloaded_count' = snap.downloaded + 1
  /\ download_history' = (tasks[i].url :> tasks[i].path) @@ download_history
  /\ tasks' = [tasks EXCEPT ![i] = [@ EXCEPT !.pc = "done", !.res = "saved"]]
  /\ sem' = sem + 1
  /\ UNCHANGED <<concurrent_downloads, failed_count, phase, urls, result_map,
                 spawned, last, snap>>

\* Lines 151-165: the body has been read; it is written, counted and
\* remembered.
Save(i) ==
  /\ UNCHANGED others
  /\ phase = "running"
  /\ NoAdmission
  /\ i \in Indices
  /\ tasks[i].pc = "reading"
  /\ files' = WriteFile(tasks[i].path, tasks[i].url)
  /\ downloaded_count' = downloaded_count + 1
  /\ download_history' = (tasks[i].url :> tasks[i].path) @@ download_history
  /\ tasks' = [tasks EXCEPT ![i] = [@ EXCEPT !.pc = "done", !.res = "saved"]]
  /\ sem' = sem + 1
  /\ UNCHANGED <<concurrent_downloads, failed_count, phase, urls, result_map,
                 spawned, last, snap>>

\* Lines 159-160 raise (caught at line 179): open fails and leaves the
\* directory as it was, or f.write fails after open has created or
\* truncated the file.
WriteRaises(i) ==
  /\ UNCHANGED others
  /\ phase = "running"
  /\ NoAdmission
  /\ i \in Indices
  /\ tasks[i].pc = "reading"
  /\ \/ files' = files
     \/ files' = TruncateFile(tasks[i].path, tasks[i].url)
  /\ tasks' = Failed(i, "raised")
  /\ failed_count' = failed_count + 1
  /\ sem' = sem + 1
  /\ UNCHANGED <<concurrent_downloads, downloaded_count, download_history,
                 phase, urls, result_map, spawned, last, snap>>

\* A join that returns as soon as one coroutine has finished.
JoinedFirstCompleted == \E i \in Indices : tasks[i].pc = "done"

\* Line 215: results = await asyncio.gather(*tasks)
Joined == AllDone

\* Lines 218-220: result_map[url] = path for the results in list order, so
\* the last coroutine of a url decides its entry.
LastOf(url) ==
  CHOOSE i \in Indices :
    /\ tasks[i].url = url
    /\ \A j \in Indices : j > i => tasks[j].url # url

\* A mapping that keeps only the urls that have a path.
BuildResultMapOfPaths ==
  [url \in { u \in { tasks[i].url : i \in Indices } :
                Ret(tasks[LastOf(u)]) # None }
     |-> Ret(tasks[LastOf(url)])]

BuildResultMap ==
  [url \in { tasks[i].url : i \in Indices } |-> Ret(tasks[LastOf(url)])]

\* Lines 215-223.
ReturnBatch ==
  /\ UNCHANGED others
  /\ phase = "running"
  /\ Joined
  /\ phase' = "idle"
  /\ result_map' = BuildResultMap
  /\ last' = "returned"
  /\ UNCHANGED <<concurrent_downloads, files, downloaded_count, failed_count,
                 download_history, urls, tasks, sem, spawned, snap>>

(* ------------------------------ reset_stats ---------------------------- *)

\* A reset that zeroes only the first counter.
ResetCountsDownloadedOnly == [downloaded |-> 0, failed |-> failed_count]

\* Lines 316-317.
ResetCounts == [downloaded |-> 0, failed |-> 0]

\* download_all blocks its caller until the call has returned, so the caller
\* resets the statistics between calls.
ResetStats ==
  /\ UNCHANGED others
  /\ phase = "idle"
  /\ downloaded_count' = ResetCounts.downloaded
  /\ failed_count' = ResetCounts.failed
  /\ last' = "reset"
  /\ UNCHANGED <<concurrent_downloads, files, download_history, phase, urls,
                 tasks, sem, result_map, spawned, snap>>

Next ==
  \/ DownloadNothing
  \/ \E list \in UrlLists(MaxTasks - spawned) : StartBatch(list)
  \/ \E i \in Indices : Begin(i)
  \/ \E i \in Indices : Respond200(i)
  \/ \E i \in Indices : RespondNot200(i)
  \/ \E i \in Indices : NetworkRaises(i)
  \/ \E i \in Indices : Save(i)
  \/ \E i \in Indices : WriteRaises(i)
  \/ ReturnBatch
  \/ ResetStats

Spec == Init /\ [][Next]_vars

(* ------------------------------ properties ----------------------------- *)

\* The retriever as a new object has it: nothing remembered, nothing counted.
Fresh ==
  /\ snap.history = EmptyMap
  /\ snap.downloaded = 0
  /\ snap.failed = 0

Requested == { tasks[i].url : i \in Indices }

TasksOf(url) == { i \in Indices : tasks[i].url = url }

Ok(i) == tasks[i].res \in {"hit", "exists", "saved"}

Bad(i) == tasks[i].res \in {"non200", "raised"}

\* A call with at least one url has returned and nothing was done since.
Returned == last = "returned" /\ tasks # <<>>

\* Every url of the call answered with a status, and always the same way.
HttpAnswersOnly ==
  /\ \A i \in Indices : tasks[i].res \in {"hit", "saved", "non200"}
  /\ \A i, j \in Indices :
        tasks[i].url = tasks[j].url =>
          ~ (tasks[i].res = "saved" /\ tasks[j].res = "non200")

\* The positions of the list whose url answered with another status than 200.
Not200Positions ==
  { i \in Indices : \E j \in TasksOf(tasks[i].url) : tasks[j].res = "non200" }

StatsAndMapOfBatch ==
  LET N == Len(tasks)
      M == Cardinality(Not200Positions)
  IN  /\ GetDownloadStats = [downloaded |-> N - M, failed |-> M, total |-> N]
      /\ Cardinality(DOMAIN result_map) = N
      /\ DOMAIN result_map = Requested
      /\ \A u \in DOMAIN result_map :
            result_map[u] = None <=> \E i \in TasksOf(u) : tasks[i].res = "non200"

Distinct == \A i, j \in Indices : i # j => tasks[i].url # tasks[j].url

\* C1 as stated: after one call of a fresh retriever on any list of N urls
\* of which M answer another status than 200 and the others answer 200, the
\* statistics are downloaded = N - M, failed = M, total = N, and the mapping
\* has N entries of which exactly the failed urls map to None.
C1_StatsOfAnyBatch ==
  (Returned /\ Fresh /\ HttpAnswersOnly) => StatsAndMapOfBatch

\* C1 amended: the same for a list of N pairwise distinct urls.
C1_StatsOfDistinctBatch ==
  (Returned /\ Fresh /\ HttpAnswersOnly /\ Distinct) => StatsAndMapOfBatch

C1_Witness ==
  /\ Returned /\ Fresh /\ HttpAnswersOnly /\ Distinct
  /\ Len(tasks) = 3
  /\ Cardinality(Not200Positions) = 1
  /\ downloaded_count = 2

\* C2: the coroutines between their admission and their end are never more
\* than concurrent_downloads, and the free slots of the semaphore are the
\* configured slots less the coroutines in flight: a slot is taken at
\* admission and given back at the end, successful or failed.
C2_AdmissionBound ==
  tasks # <<>> =>
    /\ Cardinality(InFlight) <= concurrent_downloads
    /\ sem = concurrent_downloads - Cardinality(InFlight)
    /\ sem >= 0

C2_Witness ==
  /\ phase = "running"
  /\ sem = 0
  /\ Cardinality(InFlight) = concurrent_downloads
  /\ \E i \in Indices : tasks[i].pc = "waiting"
  /\ \E i \in Indices : Bad(i)

\* C3: when download_all_async has returned, every coroutine of the call has
\* ended, every slot is free, and the mapping has exactly the requested urls
\* as keys, each with the path a coroutine of that url returned or with None
\* when its last coroutine failed.
C3_JoinPoint ==
  Returned =>
    /\ phase = "idle"
    /\ AllDone
    /\ sem = concurrent_downloads
    /\ DOMAIN result_map = Requested
    /\ \A u \in Requested :
          \/ result_map[u] = None /\ \E i \in TasksOf(u) : Bad(i)
          \/ \E i \in TasksOf(u) : Ok(i) /\ result_map[u] = tasks[i].path

C3_Witness ==
  /\ Returned
  /\ Len(tasks) = 3
  /\ \E u, v \in Requested : result_map[u] = None /\ result_map[v] # None

\* C4: a step in which one coroutine fails adds one to failed_count and
\* changes nothing else but that coroutine and its slot (and, when the write
\* raised, the file it was writing): the other coroutines stay as they are and
\* the call goes on; and when the call returns, every url none of whose
\* coroutines failed maps to a path at which a file exists.
C4_FailureIsolated ==
  [][ /\ (phase = "running" /\ phase' = "running") =>
           \A i \in Indices :
             (tasks[i].pc # "done" /\ tasks'[i].pc = "done"
                /\ tasks'[i].res \in {"non200", "raised"}) =>
               /\ failed_count' = failed_count + 1
               /\ downloaded_count' = downloaded_count
               /\ download_history' = download_history
               /\ \A j \in Indices \ {i} : tasks'[j] = tasks[j]
               /\ \A p \in DOMAIN files' :
                     (p \notin DOMAIN files \/ files'[p] # files[p]) =>
                        tasks[i].pc = "reading" /\ p = tasks[i].path
               /\ DOMAIN files \subseteq DOMAIN files'
      /\ (phase = "running" /\ phase' = "idle") =>
           \A u \in Requested :
             (\A i \in TasksOf(u) : Ok(i)) =>
                result_map'[u] # None /\ result_map'[u] \in DOMAIN files'
    ]_vars

C4_Witness ==
  /\ Returned
  /\ \E i, j \in Indices :
        /\ tasks[i].url # tasks[j].url
        /\ tasks[i].res = "raised"
        /\ tasks[j].res = "saved"
        /\ result_map[tasks[i].url] = None
        /\ result_map[tasks[j].url] = tasks[j].path
  /\ failed_count = snap.failed + 1

\* C5: a coroutine whose url was in the history when the call began never
\* calls session.get and ends with the remembered path, which the mapping
\* returns; a call all of whose urls were in the history leaves the counters,
\* the directory and the history as they were.
C5_CachedReference ==
  /\ \A i \in Indices :
        tasks[i].url \in DOMAIN snap.history =>
          /\ ~ tasks[i].sent
          /\ tasks[i].pc \in {"waiting", "done"}
          /\ tasks[i].pc = "done" =>
                tasks[i].res = "hit" /\ tasks[i].path = snap.history[tasks[i].url]
          /\ Returned => result_map[tasks[i].url] = snap.history[tasks[i].url]
  /\ (tasks # <<>> /\ Requested \subseteq DOMAIN snap.history) =>
        /\ files = snap.files
        /\ download_history = snap.history
        /\ last # "reset" =>
              downloaded_count = snap.downloaded /\ failed_count = snap.failed

C5_Witness ==
  /\ Returned
  /\ Requested \subseteq DOMAIN snap.history
  /\ downloaded_count > 0
  /\ \A u \in Requested : result_map[u] \in DOMAIN files

\* C6 as stated: of the coroutines of one call that have the same url, at
\* most one calls session.get and at most one writes a file.
C6_OneFetchPerReference ==
  \A i, j \in Indices :
    (i # j /\ tasks[i].url = tasks[j].url) =>
      /\ ~ (tasks[i].sent /\ tasks[j].sent)
      /\ ~ (tasks[i].res = "saved" /\ tasks[j].res = "saved")

\* C7 as stated: a coroutine whose url is not in the history and that finds
\* a file at the unsuffixed filename calls session.get never, ends with that
\* path remembered in the history, and counts nothing.
C7_ResumesFromDisk ==
  /\ \A i \in Indices :
        tasks[i].found =>
          /\ ~ tasks[i].sent
          /\ tasks[i].pc = "done"
          /\ tasks[i].res = "exists"
          /\ tasks[i].path = PathOf(GetFilenameFromUrl(tasks[i].url), 0)
          /\ tasks[i].url \in DOMAIN download_history
          /\ download_history[tasks[i].url] = tasks[i].path
  /\ (tasks # <<>> /\ last # "reset" /\ \A i \in Indices : tasks[i].found) =>
        downloaded_count = snap.downloaded /\ failed_count = snap.failed

\* C8 as stated: two coroutines of one call with different urls that both
\* wrote their file wrote different paths.
C8_DistinctTargets ==
  \A i, j \in Indices :
    (tasks[i].url # tasks[j].url
       /\ tasks[i].res = "saved" /\ tasks[j].res = "saved") =>
      tasks[i].path # tasks[j].path

\* C9 as stated: no step deletes a file of the directory or replaces its
\* content by the body of another url.
C9_NoOverwrite ==
  [][ \A p \in DOMAIN files :
        /\ p \in DOMAIN files'
        /\ files'[p] # files[p] => files'[p].of = files[p].of ]_vars

\* C10: after reset_stats, get_download_stats returns downloaded = 0,
\* failed = 0, total = 0, whatever the calls before it counted; both counters
\* are zeroed in the one step of reset_stats.
C10_ResetZeroesBoth ==
  last = "reset" =>
    GetDownloadStats = [downloaded |-> 0, failed |-> 0, total |-> 0]

C10_Witness ==
  /\ last = "reset"
  /\ \E i \in Indices : tasks[i].res = "saved"
  /\ \E i \in Indices : Bad(i)
  /\ GetDownloadStats.total = 0

\* C11: get_download_stats always reports total = downloaded + failed, and
\* no step other than reset_stats makes downloaded_count or failed_count
\* smaller.
C11_TotalAndMonotone ==
  [][ /\ GetDownloadStats.total = downloaded_count + failed_count
      /\ GetDownloadStats'.total = downloaded_count' + failed_count'
      /\ GetDownloadStats'.downloaded = downloaded_count'
      /\ GetDownloadStats'.failed = failed_count'
      /\ last' # "reset" =>
            /\ downloaded_count' >= downloaded_count
            /\ failed_count' >= failed_count ]_vars

C11_Witness ==
  /\ last = "returned"
  /\ snap.downloaded > 0
  /\ snap.failed > 0
  /\ downloaded_count > snap.downloaded
  /\ GetDownloadStats.total = 3

(* ------------------------ termination of a batch ----------------------- *)

\* The downloader's steps while main waits in download_all.
NextLive ==
  \/ \E list \in UrlLists(MaxLiveTasks - spawned) : StartBatch(list)
  \/ \E i \in Indices : Begin(i)
  \/ \E i \in Indices : Respond200(i)
  \/ \E i \in Indices : RespondNot200(i)
  \/ \E i \in Indices : NetworkRaises(i)
  \/ \E i \in Indices : Save(i)
  \/ \E i \in Indices : WriteRaises(i)
  \/ ReturnBatch

\* What the network does to the requests in flight, and what the coroutine
\* does with the body: a response arrives, or the request or the read ends
\* by an exception, which after config.timeout seconds is
\* asyncio.TimeoutError (line 149: ClientTimeout(total=self.config.timeout)).
NetworkEvent ==
  \E i \in Indices :
    \/ Respond200(i)
    \/ RespondNot200(i)
    \/ NetworkRaises(i)
    \/ Save(i)
    \/ WriteRaises(i)

\* The event loop runs a coroutine that can run (an admitted one, and
\* gather's caller once every coroutine has returned), and every request in
\* flight is answered or times out.
SpecLive ==
  /\ Init
  /\ [][NextLive]_vars
  /\ WF_vars(\E i \in Indices : Begin(i))
  /\ WF_vars(NetworkEvent)
  /\ WF_vars(ReturnBatch)

\* C13: a request that gets no response ends by the timeout as a failure, so
\* under that scheduling every coroutine of a batch comes to its return and
\* download_all_async returns, also for more urls than concurrent_downloads.
C13_BatchTerminates ==
  /\ \A n \in 1..MaxLiveTasks :
       (phase = "running" /\ Len(urls) = n)
         ~> (phase = "idle" /\ last = "returned" /\ AllDone /\ Len(tasks) = n)
  /\ \A i \in 1..MaxLiveTasks :
       (i \in Indices /\ tasks[i].pc \in {"getting", "reading"})
         ~> (i \in Indices /\ tasks[i].pc = "done")

C13_Witness ==
  /\ phase = "idle"
  /\ last = "returned"
  /\ Len(urls) > concurrent_downloads
  /\ \E i \in Indices : tasks[i].res = "raised" /\ tasks[i].sent
  /\ result_map[urls[1]] = None

(* ----------------- _get_unique_filepath, called alone ------------------ *)

\* The filenames _get_filename_from_url gives for the urls of the runs.
Filenames == { GetFilenameFromUrl(u) : u \in Urls }

\* The directories the calls can start in: any files named after these
\* filenames, with or without a suffix number.
ProbeDirs ==
  { [p \in S |-> [of |-> PriorRun, whole |-> TRUE]] :
      S \in SUBSET { PathOf(f, n) : f \in Filenames, n \in 0..MaxSuffix } }

InitPath ==
  /\ concurrent_downloads = 1
  /\ files \in ProbeDirs
  /\ downloaded_count = 0
  /\ failed_count = 0
  /\ download_history = EmptyMap
  /\ phase = "idle"
  /\ urls = <<>>
  /\ tasks = <<>>
  /\ sem = 0
  /\ result_map = EmptyMap
  /\ spawned = 0
  /\ last = "none"
  /\ snap = [history |-> EmptyMap, files |-> files, downloaded |-> 0,
             failed |-> 0]
  /\ OthersIdle

\* One call of _get_unique_filepath(filename), after which a file is
\* created at the path it returned (as lines 159-160 do).  The call is
\* recorded with the directory it saw.
ResolveAndCreate(url) ==
  /\ Len(returned) < MaxProbes
  /\ LET filename == GetFilenameFromUrl(url)
         filepath == GetUniqueFilepath(filename)
     IN  /\ returned' = Append(returned, [filename |-> filename,
                                          filepath |-> filepath,
                                          dir |-> DOMAIN files])
         /\ files' = WriteFile(filepath, url)
  /\ UNCHANGED <<concurrent_downloads, downloaded_count, failed_count,
                 download_history, phase, urls, tasks, sem, result_map,
                 spawned, last, snap>>
  /\ UNCHANGED <<soup, containers, tier, brands, all_brands, main_pc,
                 image_url, valid>>

NextPath == \E url \in Urls : ResolveAndCreate(url)

SpecPath == InitPath /\ [][NextPath]_vars

\* C12: _get_unique_filepath returns download_dir/filename when no file is
\* there, and otherwise the first of name_1.ext, name_2.ext, ... at which no
\* file is; the returned path never names an existing file; and successive
\* calls for one filename, each followed by the creation of the returned
\* file, in a directory that held none of them, return filename, name_1.ext,
\* name_2.ext, ... in that order.
C12_FirstFreePath ==
  \A k \in DOMAIN returned :
    LET call == returned[k]
        n    == call.filepath.n
    IN  /\ call.filepath = PathOf(call.filename, n)
        /\ call.filepath \notin call.dir
        /\ \A m \in 0..(n - 1) : PathOf(call.filename, m) \in call.dir
        /\ ( /\ \A j \in 1..k : returned[j].filename = call.filename
             /\ \A m \in 0..MaxSuffix :
                   PathOf(call.filename, m) \notin returned[1].dir )
           => n = k - 1

C12_Witness ==
  /\ Len(returned) = 3
  /\ \A k \in 1..3 : /\ returned[k].filename = [base |-> "x", hash |-> <<>>,
                                                ext |-> "jpg"]
                      /\ returned[k].filepath.n = k - 1
  /\ returned[1].dir = {}


(* ------------------------------ page urls ------------------------------ *)

\* A string is the sequence of its characters.  A url of a page is kept in
\* the three parts urlparse splits it into: scheme and host, path, and the
\* query with its "?"; the url is their concatenation.
Chars(url) == url.site \o url.path \o url.query

\* The string "" and Python's None, both false in 'if url'.
EmptyUrl == [site |-> <<>>, path |-> <<>>, query |-> <<>>]

Truthy(url) == Chars(url) # <<>>

Uppers ==
  <<"A", "B", "C", "D", "E", "F", "G", "H", "I", "J", "K", "L", "M", "N",
      "O", "P", "Q", "R", "S", "T", "U", "V", "W", "X", "Y", "Z">>

Lowers ==
  <<"a", "b", "c", "d", "e", "f", "g", "h", "i", "j", "k", "l", "m", "n",
      "o", "p", "q", "r", "s", "t", "u", "v", "w", "x", "y", "z">>

\* The lower-case letter of every upper-case letter.
LowerCase ==
  [c \in { Uppers[j] : j \in DOMAIN Uppers } |->
     Lowers[CHOOSE j \in DOMAIN Uppers : Uppers[j] = c]]

\* str.lower() on a string.
Lower(s) ==
  [k \in DOMAIN s |->
     IF s[k] \in DOMAIN LowerCase THEN LowerCase[s[k]] ELSE s[k]]

\* 'sub in s'; for a pattern of literal characters also re.search(sub, s).
Contains(s, sub) ==
  \E k \in 0..(Len(s) - Len(sub)) : SubSeq(s, k + 1, k + Len(sub)) = sub

\* s.endswith(sub); for a pattern of literal characters and a final "$" also
\* re.search on a string without line breaks.
EndsWith(s, sub) ==
  /\ Len(s) >= Len(sub)
  /\ SubSeq(s, Len(s) - Len(sub) + 1, Len(s)) = sub

\* self.base_url, as main creates the parser (main.py:151).
BaseUrl == <<"h", "t", "t", "p", "s", ":", "/", "/", "w", "w", "w", ".", "p",
    "o", "p", "f", "a", "s", "h", "i", "o", "n", "i", "n", "f", "o", ".",
    "c", "o", "m">>

\* urljoin(self.base_url, ref) for a non-empty ref: a ref with a scheme is
\* kept, a path is put under the base's host.
UrlJoin(ref) ==
  IF ref.site # <<>> THEN ref
  ELSE [site  |-> BaseUrl,
        path  |-> IF ref.path # <<>> /\ Head(ref.path) # "/"
                    THEN <<"/">> \o ref.path
                    ELSE ref.path,
        query |-> ref.query]

(* --------------------------- _is_valid_image --------------------------- *)

\* exclude_patterns, in order; at |-> "end" for the pattern that ends in "$".
ExcludePatterns ==
  << [lit |-> <<"/", "i", "c", "o", "n">>, at |-> "any"],
     [lit |-> <<"/", "l", "o", "g", "o">>, at |-> "any"],
     [lit |-> <<".", "i", "c", "o">>, at |-> "end"],
     [lit |-> <<"/", "p", "l", "a", "c", "e", "h", "o", "l", "d", "e", "r">>,
         at |-> "any"],
     [lit |-> <<"/", "l", "o", "a", "d", "i", "n", "g">>, at |-> "any"],
     [lit |-> <<"d", "a", "t", "a", ":", "i", "m", "a", "g", "e">>,
         at |-> "any"],
     [lit |-> <<"/", "a", "v", "a", "t", "a", "r">>, at |-> "any"],
     [lit |-> <<"/", "t", "h", "u", "m", "b">>, at |-> "any"],
     [lit |-> <<"_", "s", "m", "a", "l", "l">>, at |-> "any"],
     [lit |-> <<"_", "m", "i", "n", "i">>, at |-> "any"] >>

\* re.search(pattern, s)
ReSearch(pattern, s) ==
  IF pattern.at = "end" THEN EndsWith(s, pattern.lit)
                        ELSE Contains(s, pattern.lit)

ImageExtensions ==
  { <<".", "j", "p", "g">>, <<".", "j", "p", "e", "g">>, <<".", "p", "n",
      "g">>,
    <<".", "g", "i", "f">>, <<".", "w", "e", "b", "p">>, <<".", "b", "m",
        "p">> }

\* A filter that keeps only what it recognises as an image.
DropByDefault == FALSE

\* Line 259: return True.
KeepByDefault == TRUE

\* _is_valid_image(url)
IsValidImage(url) ==
  LET url_lower == Lower(Chars(url))
      path      == Lower(url.path)
  IN  IF \E k \in DOMAIN ExcludePatterns : ReSearch(ExcludePatterns[k],
      url_lower)
        THEN FALSE
      ELSE IF \E ext \in ImageExtensions : EndsWith(path, ext)
        THEN TRUE
      ELSE IF \/ Contains(url_lower, <<"i", "m", "a", "g", "e">>)
              \/ Contains(url_lower, <<"i", "m", "g">>)
              \/ Contains(url_lower, <<"p", "h", "o", "t", "o">>)
        THEN TRUE
      ELSE KeepByDefault

(* ------------------- _is_valid_image, called alone --------------------- *)

\* What the paths of the urls are made of.
Pieces ==
  { <<"/", "i", "m", "g">>, <<"/", "i", "c", "o", "n">>, <<"/", "L", "o", "g", "o">>,
    <<"/", "r", "u", "n", "w", "a", "y", "-", "2", "0", "2", "4">>, <<"_", "s", "m", "a", "l", "l">>,
    <<".", "j", "p", "g">>, <<".", "P", "N", "G">>, <<".", "i", "c", "o">>, <<"n">> }

RECURSIVE PathsOf(_)
\* The paths made of at most n pieces.
PathsOf(n) ==
  IF n = 0 THEN { <<>> }
  ELSE PathsOf(n - 1) \cup { p \o q : p \in PathsOf(n - 1), q \in Pieces }

\* The urls _is_valid_image is called with: results of urljoin, on the
\* parser's host, on another host, or a data: url.
CandidateUrls ==
  { [site |-> s, path |-> p, query |-> q] :
      s \in { BaseUrl, <<"h", "t", "t", "p", ":", "/", "/", "c", "d", "n",
          ".", "e", "x", "a", "m", "p", "l", "e">>, <<"d", "a", "t", "a",
          ":">> },
      p \in PathsOf(MaxPieces) \cup { <<"i", "m", "a", "g", "e", "/", "p",
          "n", "g", ";", "b", "a", "s", "e", "6", "4", ",", "A", "A", "A",
          "A">> },
      q \in { <<>>, <<"?", "v", "=", "_", "s", "m", "a", "l", "l">> } }

InitValid ==
  /\ concurrent_downloads = 1
  /\ files = EmptyMap
  /\ downloaded_count = 0
  /\ failed_count = 0
  /\ download_history = EmptyMap
  /\ phase = "idle"
  /\ urls = <<>>
  /\ tasks = <<>>
  /\ sem = 0
  /\ result_map = EmptyMap
  /\ spawned = 0
  /\ last = "none"
  /\ snap = [history |-> EmptyMap, files |-> files, downloaded |-> 0,
             failed |-> 0]
  /\ soup = [title |-> <<>>, body |-> <<>>]
  /\ containers = <<>>
  /\ tier = 0
  /\ brands = <<>>
  /\ all_brands = <<>>
  /\ main_pc = [at |-> "off", i |-> 0]
  /\ returned = <<>>
  /\ image_url \in CandidateUrls
  /\ valid = <<>>

\* One call of _is_valid_image(image_url).
CallIsValidImage ==
  /\ valid = <<>>
  /\ valid' = << IsValidImage(image_url) >>
  /\ UNCHANGED retriever
  /\ UNCHANGED <<soup, containers, tier, brands, all_brands, main_pc,
                 returned, image_url>>

NextValid == CallIsValidImage

SpecValid == InitValid /\ [][NextValid]_vars

\* Two characters that differ at most in case.
SameIgnoringCase(c, d) == Lower(<<c>>) = Lower(<<d>>)

\* The url has, somewhere (or, for the pattern ending in "$", at its end),
\* the characters of an exclusion pattern, in any case.
Denied(url) ==
  LET s == Chars(url)
  IN  \E k \in DOMAIN ExcludePatterns :
        LET lit == ExcludePatterns[k].lit
        IN  \E from \in 0..(Len(s) - Len(lit)) :
              /\ ExcludePatterns[k].at = "end" => from = Len(s) - Len(lit)
              /\ \A j \in DOMAIN lit : SameIgnoringCase(s[from + j], lit[j])

IconSmallPng ==
  [site |-> BaseUrl, path |-> <<"/", "i", "m", "g", "/", "i", "c", "o", "n",
      "_", "s", "m", "a", "l", "l", ".", "p", "n", "g">>,
   query |-> <<>>]

Runway2024Jpg ==
  [site |-> BaseUrl, path |-> <<"/", "i", "m", "g", "/", "r", "u", "n", "w",
      "a", "y", "-", "2", "0", "2", "4", ".", "j", "p", "g">>,
   query |-> <<>>]

\* C20: _is_valid_image returns False exactly for the urls that hold an
\* exclusion pattern, compared without regard to case, and True for every
\* other url, whatever its extension and whether or not it holds 'image',
\* 'img' or 'photo'; .../icon_small.png is dropped and .../runway-2024.jpg
\* is kept.
C20_Denylist ==
  /\ valid # <<>> => valid[1] = ~ Denied(image_url)
  /\ ~ IsValidImage(IconSmallPng)
  /\ IsValidImage(Runway2024Jpg)

\* A url without image extension and without image token was kept.
C20_Witness ==
  /\ valid = << TRUE >>
  /\ image_url.path = <<"/", "r", "u", "n", "w", "a", "y", "-", "2", "0",
      "2", "4">>
  /\ image_url.query = <<>>
  /\ image_url.site = <<"h", "t", "t", "p", ":", "/", "/", "c", "d", "n",
      ".", "e", "x", "a", "m", "p", "l", "e">>


(* ------------------------------ documents ------------------------------ *)

\* A text is the sequence of its words, with " " for a run of white space
\* where that matters (at the ends of a text, for str.strip).
\*
\* A document (the soup) has at most one title element and a body, a
\* sequence of elements.  An element of the body is described by what the
\* parser asks of it:
\*   match  the selectors of the parser that select it
\*   style  its style attribute: the hex colours and the url(...) in it
\*   data   its data-* attributes, by name
\*   heads  its children that are headings or carry a class, in document
\*          order: the selector that finds the child, its text and style
\*   imgs   its img children, in document order, after the heads: their
\*          attributes by name
\*   text   its own text, after its children
\* An absent attribute is not in the function's domain; an absent style is
\* <<>>, a present one <<[hex |-> ..., bg |-> ...]>>.

NoAttrs == [a \in {} |-> <<>>]

Style(hex, bg) == << [hex |-> hex, bg |-> bg] >>

Plain ==
  [match |-> {}, style |-> <<>>, data |-> NoAttrs, heads |-> <<>>,
   imgs |-> <<>>, text |-> <<>>]

Heading(sel, text) == [sel |-> sel, text |-> text, style |-> <<>>]

Img(attrs) == [attrs |-> attrs]

\* Values of src and of the other url attributes: a path on the page's host,
\* a url on another host, the path of an icon, and src="".
RefA == [site |-> <<>>, path |-> <<"/", "i", "m", "g", "/", "a", ".", "j",
    "p", "g">>, query |-> <<>>]

RefB ==
  [site |-> <<"h", "t", "t", "p", ":", "/", "/", "c", "d", "n", ".", "e",
      "x", "a", "m", "p", "l", "e">>, path |-> <<"/", "b", ".", "j", "p",
      "g">>,
   query |-> <<>>]

RefIcon ==
  [site |-> <<>>, path |-> <<"i", "m", "g", "/", "i", "c", "o", "n", "_",
      "s", "m", "a", "l", "l", ".", "p", "n", "g">>, query |-> <<>>]

\* Phrases of the texts.
Phrase2 == << "PANTONE", "19-4052", "Classic", "Blue" >>

Phrase3 == << "PANTONE", "Classic", "Blue", "19-4052" >>

Phrase1 == << "PANTONE", "19-4052", "TCX", "Classic", "Blue" >>

PhraseRed == << "Pantone", "18-1234", "Red" >>

PhraseGlued == << "PANTONE", "Navy", "19-4052TCX" >>

\* The elements a body is made of: elements no container selector selects,
\* then elements selected by '.card', then elements selected by others.
Elements ==
  { [Plain EXCEPT !.imgs = << Img("src" :> RefA) >>],
    [Plain EXCEPT !.imgs = << Img(("data-src" :> RefB) @@ ("src" :> RefA)
                                  @@ ("alt" :> << "Look" >>)) >>],
    [Plain EXCEPT !.imgs = << Img("src" :> RefIcon), Img("src" :> RefB) >>],
    [Plain EXCEPT !.text = Phrase2],
    [Plain EXCEPT !.text = Phrase3 \o PhraseRed],
    [Plain EXCEPT !.text = PhraseRed \o Phrase1],
    [Plain EXCEPT !.heads = << Heading("h1", << "Top" >>) >>],
    [Plain EXCEPT !.heads = << Heading("h1", << " " >>) >>],
    [Plain EXCEPT !.match = { ".brand-name" }, !.text = << " ", "Zed",
        " " >>],
    [Plain EXCEPT !.style = Style(<< "0f4c81" >>, << RefA, RefB >>),
                  !.text = PhraseRed],
    [Plain EXCEPT !.style = Style(<<>>, << RefB, RefIcon >>),
                  !.text = PhraseGlued],
    [Plain EXCEPT !.data = ("data-color" :> PhraseRed)
                           @@ ("data-hex" :> << "#", "bb2233" >>)],
    [Plain EXCEPT !.match = { ".color-info" }, !.text = Phrase3,
                  !.style = Style(<< "0f4c81" >>, <<>>)],

    [Plain EXCEPT !.match = { ".card" },
                  !.heads = << Heading("h2", << "Acme" >>) >>,
                  !.imgs = << Img("src" :> RefA) >>, !.text = Phrase2],
    [Plain EXCEPT !.match = { ".card" },
                  !.heads = << Heading("h2", << "Acme" >>) >>,
                  !.text = Phrase2],
    [Plain EXCEPT !.match = { ".card" },
                  !.imgs = << Img("alt" :> << "Look" >>),
                      Img("src" :> RefB) >>],
    [Plain EXCEPT !.match = { ".card" },
                  !.imgs = << Img("src" :> EmptyUrl) >>, !.text = PhraseRed],
    [Plain EXCEPT !.match = { ".card" },
                  !.imgs = << Img("src" :> RefIcon) >>],
    [Plain EXCEPT !.match = { ".card" },
                  !.heads = << Heading("h2", << " " >>),
                               Heading(".title", << " ", "Zed" >>) >>,
                  !.imgs = << Img("src" :> RefA) >>],
    [Plain EXCEPT !.match = { ".card" },
                  !.data = ("data-brand" :> << "Dior" >>),
                  !.imgs = << Img(("src" :> RefB) @@ ("alt" :> << "Look" >>)) >>],
    [Plain EXCEPT !.match = { ".card" },
                  !.imgs = << Img(("src" :> RefA) @@ ("alt" :> << "Look" >>)) >>],
    [Plain EXCEPT !.match = { ".card" },
                  !.imgs = << Img(("data-original" :> RefB)
                                  @@ ("alt" :> <<>>)) >>],
    [Plain EXCEPT !.match = { ".card" }, !.imgs = << Img("src" :> RefA) >>,
                  !.text = Phrase1 \o Phrase3,
                  !.style = Style(<< "0f4c81" >>, <<>>)],
    [Plain EXCEPT !.match = { ".card" }, !.imgs = << Img("src" :> RefB) >>,
                  !.text = Phrase3 \o Phrase2 \o PhraseRed,
                  !.data = ("data-hex" :> << "bb2233" >>)],
    [Plain EXCEPT !.match = { ".card" }, !.imgs = << Img("src" :> RefA) >>,
                  !.heads = << [sel |-> "h4", text |-> << "Brio" >>,
                                style |-> Style(<< "fff" >>, <<>>)] >>,
                  !.data = ("data-color" :> PhraseRed)
                           @@ ("data-hex" :> << "bb2233" >>)],

    [Plain EXCEPT !.match = { ".brand-item" },
                  !.heads = << Heading("h3", << "Brio" >>) >>,
                  !.imgs = << Img("src" :> RefB) >>, !.text = PhraseRed],
    [Plain EXCEPT !.match = { ".brand-item", ".card" },
                  !.heads = << Heading(".name", << "Acme" >>) >>,
                  !.imgs = << Img("src" :> RefA) >>],
    [Plain EXCEPT !.match = { ".product-item" },
                  !.imgs = << Img("data-lazy-src" :> RefA) >>],
    [Plain EXCEPT !.match = { ".style-item" },
                  !.imgs = << Img("src" :> RefB) >>, !.text = Phrase3],
    [Plain EXCEPT !.match = { "[data-pantone]", ".pantone" },
                  !.imgs = << Img("src" :> RefA) >>, !.text = Phrase2],
    [Plain EXCEPT !.match = { "article.item" }] }

\* The title elements: none, one whose text begins with a name, one whose
\* text has nothing before the first "|".
Titles ==
  { <<>>,
    << << "Acme", "Studio", "-", "Spring", "|", "Site" >> >>,
    << << " ", "|", "Site" >> >> }

RECURSIVE BodiesOf(_)
\* The bodies of at most n elements.
BodiesOf(n) ==
  IF n = 0 THEN { <<>> }
  ELSE BodiesOf(n - 1)
         \cup { Append(b, e) : b \in BodiesOf(n - 1), e \in Elements }

Documents ==
  { [title |-> t, body |-> b] : t \in Titles, b \in BodiesOf(MaxNodes) }


(* ------------------------------ the parser ----------------------------- *)

\* The members of a set of numbers, in increasing order.
RECURSIVE InOrder(_)
InOrder(S) ==
  IF S = {} THEN <<>>
  ELSE LET m == CHOOSE x \in S : \A y \in S : x <= y
       IN  << m >> \o InOrder(S \ { m })

\* The concatenation of the sequences of a sequence.
RECURSIVE Flatten(_)
Flatten(ss) == IF ss = <<>> THEN <<>> ELSE Head(ss) \o Flatten(Tail(ss))

\* text.split(): the words of a text.
Split(text) == SelectSeq(text, LAMBDA w : w # " ")

\* text.strip()
RECURSIVE Strip(_)
Strip(text) ==
  IF text = <<>> THEN <<>>
  ELSE IF Head(text) = " " THEN Strip(Tail(text))
  ELSE IF text[Len(text)] = " " THEN Strip(SubSeq(text, 1, Len(text) - 1))
  ELSE text

\* text.split(sep)[0]: the text before the first sep.
RECURSIVE Before(_, _)
Before(text, sep) ==
  IF text = <<>> \/ Head(text) = sep THEN <<>>
  ELSE << Head(text) >> \o Before(Tail(text), sep)

\* elem.get_text() of an element of the body: the texts of its children and
\* its own, which white space in the document separates.
GetText(e) ==
  Flatten([k \in DOMAIN e.heads |-> e.heads[k].text \o << " " >>]) \o e.text

\* soup.get_text()
SoupText(doc) ==
  Flatten([k \in DOMAIN doc.title |-> doc.title[k] \o << " " >>])
    \o Flatten([k \in DOMAIN doc.body |-> GetText(doc.body[k]) \o << " " >>])

\* soup.select(selector): the places in the body of the elements selected.
Select(doc, selectors) ==
  InOrder({ k \in DOMAIN doc.body : doc.body[k].match \cap selectors # {} })

\* The selectors of _find_content_containers, in its order.
Selectors ==
  << ".product-item", ".brand-item", ".design-item", ".gallery-item",
     ".trend-item", ".color-card", "article.item", ".card", "[data-pantone]",
     ".style-item" >>

\* The elements that any of the selectors selects.
FindContentContainersOfAll(doc) ==
  Select(doc, { Selectors[k] : k \in DOMAIN Selectors })

\* The loop of _find_content_containers from the k-th selector on.
RECURSIVE FirstSelected(_, _)
FirstSelected(doc, k) ==
  IF k > Len(Selectors) THEN <<>>
  ELSE IF Select(doc, { Selectors[k] }) # <<>> THEN Select(doc,
      { Selectors[k] })
  ELSE FirstSelected(doc, k + 1)

FindContentContainers(doc) == FirstSelected(doc, 1)

\* url_attrs
UrlAttrs == << "data-original", "data-src", "data-lazy-src", "src" >>

\* _get_image_url(img); EmptyUrl for None.
GetImageUrl(img) ==
  LET set == { k \in DOMAIN UrlAttrs :
                 /\ UrlAttrs[k] \in DOMAIN img.attrs
                 /\ Truthy(img.attrs[UrlAttrs[k]]) }
  IN  IF set = {} THEN EmptyUrl
      ELSE UrlJoin(img.attrs[UrlAttrs[Head(InOrder(set))]])

\* Python's "" as a path, and the default of DesignerBrand.local_image_path.
EmptyPath == [base |-> "", hash |-> <<>>, ext |-> "", n |-> 0]

\* DesignerBrand(brand_name=..., image_url=..., page_url=..., colors=...)
DesignerBrand(brand_name, img_url, page_url, colors) ==
  [brand_name |-> brand_name, image_url |-> img_url,
   local_image_path |-> EmptyPath, colors |-> colors, page_url |-> page_url]

\* PantoneColor(color_code=..., color_name=..., hex_value=...), with the
\* full_name __post_init__ gives it.
PantoneColor(code, name, hex_value) ==
  [color_code |-> code, color_name |-> name, hex_value |-> hex_value,
   full_name |-> << "PANTONE", code >> \o name]


(* --------------------------- PANTONE_PATTERNS -------------------------- *)

\* The patterns are matched on the words of a text.  All three are compiled
\* with re.IGNORECASE, so 'PANTONE' matches in any case and [A-Z][a-z]+
\* matches every word of two or more letters, 'TCX' and 'PANTONE' included.

\* The words 'PANTONE' matches.
PantoneWords == { "PANTONE", "Pantone" }

\* The words \d{2}-\d{4} matches whole.
Codes == { "19-4052", "18-1234" }

\* The words (?:TCX|TPX|TPG|C|U) matches whole.
Suffixes == { "TCX", "TPX", "TPG", "C", "U" }

\* The words that are a code and a suffix with nothing between, and the code.
Glued == "19-4052TCX" :> "19-4052"

\* The words [A-Z][a-z]+ matches whole: the words of letters of the texts.
Alpha ==
  PantoneWords \cup
  { "TCX", "TPX", "TPG", "Classic", "Blue", "Red", "Navy", "Acme", "Studio",
    "Spring", "Site", "Top", "Zed", "Brio", "Look", "Dior" }

NoMatch == [end |-> 0, groups |-> <<>>]

\* ([A-Z][a-z]+(?:\s+[A-Z][a-z]+)?) at the end of a pattern, tried at word
\* i: two words if there are two, one otherwise.
NameAt(t, i) ==
  IF ~ (i \in DOMAIN t /\ t[i] \in Alpha) THEN NoMatch
  ELSE IF i + 1 \in DOMAIN t /\ t[i + 1] \in Alpha
    THEN [end |-> i + 1, groups |-> << << t[i], t[i + 1] >> >>]
    ELSE [end |-> i, groups |-> << << t[i] >> >>]

\* (\d{2}-\d{4})(?!\d) at the start of word i.
CodeAt(t, i) ==
  IF i \in DOMAIN t /\ t[i] \in Codes THEN << t[i] >>
  ELSE IF i \in DOMAIN t /\ t[i] \in DOMAIN Glued THEN << Glued[t[i]] >>
  ELSE <<>>

\* A match of pattern f (1, 2, 3: the place in PANTONE_PATTERNS) that begins
\* at word i: the last word it takes and its two groups, or NoMatch.
MatchAt(f, t, i) ==
  IF ~ (i \in DOMAIN t /\ t[i] \in PantoneWords) THEN NoMatch
  ELSE IF f = 1 THEN
    LET name == IF i + 2 \in DOMAIN t /\ t[i + 1] \in Codes
                     /\ t[i + 2] \in Suffixes
                  THEN NameAt(t, i + 3)
                ELSE IF i + 1 \in DOMAIN t /\ t[i + 1] \in DOMAIN Glued
                  THEN NameAt(t, i + 2)
                ELSE NoMatch
    IN  IF name = NoMatch THEN NoMatch
        ELSE [end |-> name.end, groups |-> << CodeAt(t, i + 1) >> \o name.groups]
  ELSE IF f = 2 THEN
    LET name == IF i + 1 \in DOMAIN t /\ t[i + 1] \in Codes
                  THEN NameAt(t, i + 2)
                  ELSE NoMatch
    IN  IF name = NoMatch THEN NoMatch
        ELSE [end |-> name.end,
            groups |-> << << t[i + 1] >> >> \o name.groups]
  ELSE
    IF ~ (i + 1 \in DOMAIN t /\ t[i + 1] \in Alpha) THEN NoMatch
    ELSE IF i + 2 \in DOMAIN t /\ t[i + 2] \in Alpha /\ CodeAt(t,
        i + 3) # <<>>
      THEN [end |-> i + 3,
            groups |-> << << t[i + 1], t[i + 2] >>, CodeAt(t, i + 3) >>]
    ELSE IF CodeAt(t, i + 2) # <<>>
      THEN [end |-> i + 2, groups |-> << << t[i + 1] >>, CodeAt(t, i + 2) >>]
    ELSE NoMatch

\* re.findall(pattern, text, re.IGNORECASE) from word i on: the matches from
\* left to right, none overlapping another.
RECURSIVE ReFindAll(_, _, _)
ReFindAll(f, t, i) ==
  IF i > Len(t) THEN <<>>
  ELSE IF MatchAt(f, t, i) = NoMatch THEN ReFindAll(f, t, i + 1)
  ELSE << MatchAt(f, t, i).groups >> \o ReFindAll(f, t, MatchAt(f, t,
      i).end + 1)

\* re.match(r'\d{2}-\d{4}', match[0]) decides which group is the code.
CodeOf(groups) ==
  IF CodeAt(groups[1], 1) # <<>> THEN groups[1][1] ELSE groups[2][1]

NameOf(groups) ==
  IF CodeAt(groups[1], 1) # <<>> THEN groups[2] ELSE groups[1]

\* Appending every colour, whatever its code.
AddEvery(colors, new) == colors \o new

\* if not any(c.color_code == code for c in colors): colors.append(color),
\* for every colour of new in turn.
RECURSIVE AddColors(_, _)
AddColors(colors, new) ==
  IF new = <<>> THEN colors
  ELSE IF \E k \in DOMAIN colors : colors[k].color_code = Head(new).color_code
    THEN AddColors(colors, Tail(new))
    ELSE AddColors(Append(colors, Head(new)), Tail(new))

\* The colours of the matches of pattern f in the words t.
ColorsOfPattern(f, t, hex_value) ==
  [k \in DOMAIN ReFindAll(f, t, 1) |->
     PantoneColor(CodeOf(ReFindAll(f, t, 1)[k]), NameOf(ReFindAll(f, t,
         1)[k]),
                  hex_value)]

\* for pattern in self.PANTONE_PATTERNS: for match in matches: ...
ColorsOfText(t, hex_value) ==
  AddColors(AddColors(AddColors(<<>>, ColorsOfPattern(1, t, hex_value)),
                      ColorsOfPattern(2, t, hex_value)),
            ColorsOfPattern(3, t, hex_value))

\* _extract_hex_from_container(container); <<>> for None.  The img elements
\* of the documents have no style attribute.
ExtractHexFromContainer(e) ==
  LET styled == { k \in DOMAIN e.heads :
                    /\ e.heads[k].style # <<>>
                    /\ e.heads[k].style[1].hex # <<>> }
  IN  IF e.style # <<>> /\ e.style[1].hex # <<>>
        THEN << "#", e.style[1].hex[1] >>
      ELSE IF "data-hex" \in DOMAIN e.data /\ e.data["data-hex"] # <<>>
        THEN IF Head(e.data["data-hex"]) = "#"
               THEN e.data["data-hex"]
               ELSE << "#" >> \o e.data["data-hex"]
      ELSE IF styled # {}
        THEN << "#", e.heads[Head(InOrder(styled))].style[1].hex[1] >>
      ELSE <<>>

\* _extract_pantone_from_container(container)
ExtractPantoneFromContainer(e) ==
  ColorsOfText(Split(GetText(e)), ExtractHexFromContainer(e))

\* _parse_color_attribute(color_info, hex_value): <<>> for None, else the
\* colour of the first match of the first pattern that matches.
ParseColorAttribute(color_info, hex_value) ==
  LET t   == Split(color_info)
      set == { f \in 1..3 : ReFindAll(f, t, 1) # <<>> }
  IN  IF color_info = <<>> \/ set = {} THEN <<>>
      ELSE LET groups == Head(ReFindAll(Head(InOrder(set)), t, 1))
           IN  << PantoneColor(CodeOf(groups), NameOf(groups), hex_value) >>

\* The selectors of the colour containers of _extract_all_pantone_colors.
ColorContainers == { ".pantone", ".color-info", ".color-block",
    ".pantone-color" }

\* _extract_all_pantone_colors(soup): the colours of the text, then those of
\* the data-color attributes, then those of the colour containers.
ExtractAllPantoneColors(doc) ==
  LET of_text  == ColorsOfText(Split(SoupText(doc)), <<>>)
      elements == InOrder({ k \in DOMAIN doc.body :
                              "data-color" \in DOMAIN doc.body[k].data })
      of_attrs == Flatten([j \in DOMAIN elements |->
                    LET e == doc.body[elements[j]]
                    IN  ParseColorAttribute(
                          e.data["data-color"],
                          IF "data-hex" \in DOMAIN e.data
                            THEN e.data["data-hex"] ELSE <<>>)])
      holders  == Select(doc, ColorContainers)
      of_holders == Flatten([j \in DOMAIN holders |->
                      ExtractPantoneFromContainer(doc.body[holders[j]])])
  IN  AddColors(AddColors(of_text, of_attrs), of_holders)


(* ----------------------------- brand names ----------------------------- *)

UnknownBrand == << "Unknown", "Brand" >>

Unknown == << "Unknown" >>

\* The first child of the element that the tag or class selects, as a
\* sequence of none or one.
FirstHead(e, sel) ==
  LET set == { k \in DOMAIN e.heads : e.heads[k].sel = sel }
  IN  IF set = {} THEN <<>> ELSE << e.heads[Head(InOrder(set))] >>

\* The tags and classes _extract_brand_name_from_container looks for.
NameTags == << "h1", "h2", "h3", "h4", ".title", ".name", ".brand" >>

\* _extract_brand_name_from_container(container)
ExtractBrandNameFromContainer(e) ==
  LET named == { k \in DOMAIN NameTags :
                   /\ FirstHead(e, NameTags[k]) # <<>>
                   /\ Strip(FirstHead(e, NameTags[k])[1].text) # <<>> }
      brand == IF "data-brand" \in DOMAIN e.data /\ e.data["data-brand"] # <<>>
                 THEN e.data["data-brand"]
               ELSE IF "data-name" \in DOMAIN e.data
                 THEN e.data["data-name"]
               ELSE <<>>
      alt   == IF e.imgs # <<>> /\ "alt" \in DOMAIN e.imgs[1].attrs
                 THEN e.imgs[1].attrs["alt"]
                 ELSE <<>>
  IN  IF named # {}
        THEN Strip(FirstHead(e, NameTags[Head(InOrder(named))])[1].text)
      ELSE IF brand # <<>> THEN brand
      ELSE IF alt # <<>> THEN alt
      ELSE UnknownBrand

\* The elements of the document in document order, each element of the body
\* before its children, as the class that selects it (for a child, its tag
\* or class) and its text.
Labelled(doc) ==
  Flatten([k \in DOMAIN doc.body |->
     << [sels |-> doc.body[k].match, text |-> GetText(doc.body[k])] >>
       \o [j \in DOMAIN doc.body[k].heads |->
             [sels |-> { doc.body[k].heads[j].sel },
              text |-> doc.body[k].heads[j].text]]])

\* soup.find(tag) and soup.select_one(selector): the first such element, as
\* a sequence of none or one.
SelectOne(doc, sel) ==
  LET set == { k \in DOMAIN Labelled(doc) : sel \in Labelled(doc)[k].sels }
  IN  IF set = {} THEN <<>> ELSE << Labelled(doc)[Head(InOrder(set))] >>

\* The classes _extract_brand_name looks for.
NameClasses == << ".brand-name", ".designer-name", ".title" >>

\* _extract_brand_name(soup); <<>> for None and for "".
ExtractBrandName(doc) ==
  LET brand == IF doc.title = <<>> THEN <<>>
               ELSE Strip(Before(Before(doc.title[1], "|"), "-"))
      found == { k \in DOMAIN NameClasses : SelectOne(doc,
          NameClasses[k]) # <<>> }
  IN  IF brand # <<>> THEN brand
      ELSE IF SelectOne(doc, "h1") # <<>> THEN Strip(SelectOne(doc,
          "h1")[1].text)
      ELSE IF found # {}
        THEN Strip(SelectOne(doc, NameClasses[Head(InOrder(found))])[1].text)
      ELSE <<>>

(* ------------------------------- images -------------------------------- *)

\* list(dict.fromkeys(images)), and a list that keeps every element.
KeepRepeats(images) == images

RECURSIVE FromKeys(_)
FromKeys(images) ==
  IF images = <<>> THEN <<>>
  ELSE LET rest == FromKeys(SubSeq(images, 1, Len(images) - 1))
           x    == images[Len(images)]
       IN  IF \E k \in DOMAIN rest : rest[k] = x THEN rest ELSE Append(rest,
           x)

\* soup.find_all('img')
ImgTags(doc) == Flatten([k \in DOMAIN doc.body |-> doc.body[k].imgs])

\* The url(...) of the style attributes, in document order.
BgUrls(doc) ==
  Flatten([k \in DOMAIN doc.body |->
     (IF doc.body[k].style = <<>> THEN <<>> ELSE doc.body[k].style[1].bg)
       \o Flatten([j \in DOMAIN doc.body[k].heads |->
            IF doc.body[k].heads[j].style = <<>> THEN <<>>
            ELSE doc.body[k].heads[j].style[1].bg])])

\* _extract_all_images(soup)
ExtractAllImages(doc) ==
  LET of_tags == [k \in DOMAIN ImgTags(doc) |-> GetImageUrl(ImgTags(doc)[k])]
      of_bg   == [k \in DOMAIN BgUrls(doc) |-> UrlJoin(BgUrls(doc)[k])]
  IN  FromKeys(SelectSeq(of_tags, LAMBDA u : Truthy(u) /\ IsValidImage(u))
                 \o SelectSeq(of_bg, IsValidImage))

(* ------------------------- parse_designer_page ------------------------- *)

\* A container that gives a record whatever its image.
ParseContainerAlways(e, page_url) ==
  << DesignerBrand(ExtractBrandNameFromContainer(e),
                   IF e.imgs = <<>> THEN EmptyUrl ELSE GetImageUrl(e.imgs[1]),
                   page_url, ExtractPantoneFromContainer(e)) >>

\* A _parse_container that gives no record for a url _is_valid_image
\* rejects.
ParseContainerFiltered(e, page_url) ==
  IF e.imgs = <<>> THEN <<>>
  ELSE IF ~ Truthy(GetImageUrl(e.imgs[1])) THEN <<>>
  ELSE IF ~ IsValidImage(GetImageUrl(e.imgs[1])) THEN <<>>
  ELSE << DesignerBrand(ExtractBrandNameFromContainer(e),
                        GetImageUrl(e.imgs[1]), page_url,
                        ExtractPantoneFromContainer(e)) >>

\* _parse_container(container, page_url), as a sequence of none or one.
ParseContainer(e, page_url) ==
  IF e.imgs = <<>> THEN <<>>
  ELSE IF ~ Truthy(GetImageUrl(e.imgs[1])) THEN <<>>
  ELSE << DesignerBrand(ExtractBrandNameFromContainer(e),
                        GetImageUrl(e.imgs[1]), page_url,
                        ExtractPantoneFromContainer(e)) >>

\* Lines 71-74: the records of the containers.
Tier1(doc, found, page_url) ==
  Flatten([j \in DOMAIN found |-> ParseContainer(doc.body[found[j]],
      page_url)])

\* Lines 77-90: one record for each image of the document.
Tier2(doc, page_url) ==
  LET images == ExtractAllImages(doc)
      colors == ExtractAllPantoneColors(doc)
  IN  [k \in DOMAIN images |->
         DesignerBrand(IF ExtractBrandName(doc) # <<>>
                         THEN ExtractBrandName(doc) ELSE Unknown,
                       images[k], page_url, colors)]

\* browser.get_current_url()
PageUrl == "https://www.popfashioninfo.com/designers"

InitParse ==
  /\ concurrent_downloads = 1
  /\ files = EmptyMap
  /\ downloaded_count = 0
  /\ failed_count = 0
  /\ download_history = EmptyMap
  /\ phase = "idle"
  /\ urls = <<>>
  /\ tasks = <<>>
  /\ sem = 0
  /\ result_map = EmptyMap
  /\ spawned = 0
  /\ last = "none"
  /\ snap = [history |-> EmptyMap, files |-> files, downloaded |-> 0,
             failed |-> 0]
  /\ soup \in Documents
  /\ containers = <<>>
  /\ tier = 0
  /\ brands = <<>>
  /\ all_brands = <<>>
  /\ main_pc = [at |-> "off", i |-> 0]
  /\ returned = <<>>
  /\ image_url = EmptyUrl
  /\ valid = <<>>

\* A parse_designer_page that takes the second branch also when the
\* containers gave no record.
ParseDesignerPageFallsBack ==
  /\ tier = 0
  /\ containers' = FindContentContainers(soup)
  /\ IF Tier1(soup, containers', PageUrl) # <<>>
       THEN /\ tier' = 1
            /\ brands' = Tier1(soup, containers', PageUrl)
       ELSE /\ tier' = 2
            /\ brands' = Tier2(soup, PageUrl)
  /\ UNCHANGED retriever
  /\ UNCHANGED <<soup, all_brands, main_pc, returned, image_url, valid>>

\* parse_designer_page(html, page_url) on the document soup.
ParseDesignerPage ==
  /\ tier = 0
  /\ containers' = FindContentContainers(soup)
  /\ IF containers' # <<>>
       THEN /\ tier' = 1
            /\ brands' = Tier1(soup, containers', PageUrl)
       ELSE /\ tier' = 2
            /\ brands' = Tier2(soup, PageUrl)
  /\ UNCHANGED retriever
  /\ UNCHANGED <<soup, all_brands, main_pc, returned, image_url, valid>>

NextParse == ParseDesignerPage

SpecParse == InitParse /\ [][NextParse]_vars


(* ----------------------- properties of the parser ---------------------- *)

Body == soup.body

\* The places in Selectors of the selectors that select an element.
Selecting ==
  { k \in DOMAIN Selectors : \E j \in DOMAIN Body : Selectors[k] \in Body[j].match }

\* The element's first img has a url attribute that is not empty.
HasMedia(e) ==
  /\ e.imgs # <<>>
  /\ \E k \in DOMAIN UrlAttrs :
       /\ UrlAttrs[k] \in DOMAIN e.imgs[1].attrs
       /\ e.imgs[1].attrs[UrlAttrs[k]] # EmptyUrl

\* The containers that have one, in order: brands[k] is the record of the
\* element at Emitting[k] when the containers were parsed.
Emitting == SelectSeq(containers, LAMBDA j : HasMedia(Body[j]))

\* The urls the document names, resolved, in the order the second branch
\* meets them: those of the img elements, then those of the styles.
Seen ==
  [k \in DOMAIN ImgTags(soup) |-> GetImageUrl(ImgTags(soup)[k])]
    \o [k \in DOMAIN BgUrls(soup) |-> UrlJoin(BgUrls(soup)[k])]

\* C14: the containers are exactly the elements the first selector that
\* selects anything selects, in document order, and none that only a later
\* selector selects; the second branch (the whole document) is taken if and
\* only if no selector selects an element.
C14_FirstSelectorOnly ==
  tier # 0 =>
    /\ (tier = 2) <=> (Selecting = {})
    /\ tier = 2 => containers = <<>>
    /\ tier = 1 =>
         LET first == CHOOSE k \in Selecting : \A j \in Selecting : k <= j
         IN  /\ \A j \in DOMAIN Body :
                  (\E k \in DOMAIN containers : containers[k] = j)
                    <=> Selectors[first] \in Body[j].match
             /\ \A k, l \in DOMAIN containers :
                  k < l => containers[k] < containers[l]

\* Two selectors select, and the element of the later one, which comes
\* first in the document, is no container.
C14_Witness ==
  /\ tier = 1
  /\ Cardinality(Selecting) = 2
  /\ Len(Body) = 2
  /\ containers = << 2 >>
  /\ Body[1].match # {}

\* C15: every record has a non-empty image_url: the first branch gives a
\* record for the containers whose first img has a url and for no other,
\* and the second gives records only for urls the document names.
C15_MediaReference ==
  tier # 0 =>
    /\ \A k \in DOMAIN brands : Chars(brands[k].image_url) # <<>>
    /\ tier = 1 => Len(brands) = Len(Emitting)
    /\ tier = 2 =>
         \A k \in DOMAIN brands :
           \E j \in DOMAIN Seen : Seen[j] = brands[k].image_url

\* One container without img or without url, and one with.
C15_Witness ==
  /\ tier = 1
  /\ Len(containers) = 2
  /\ Len(brands) = 1
  /\ ~ HasMedia(Body[1])
  /\ Body[1].imgs # <<>>

\* The texts of the document a brand name can be taken from.
NamesIn(doc) ==
  { Strip(Labelled(doc)[k].text) : k \in DOMAIN Labelled(doc) }
    \cup UNION { { doc.body[k].data[a] :
                      a \in { "data-brand", "data-name" }
                             \cap DOMAIN doc.body[k].data } :
                    k \in DOMAIN doc.body }
    \cup { ImgTags(doc)[k].attrs["alt"] :
             k \in { j \in DOMAIN ImgTags(doc) : "alt" \in DOMAIN ImgTags(doc)[j].attrs } }
    \cup { Strip(Before(Before(doc.title[k], "|"),
        "-")) : k \in DOMAIN doc.title }

\* C16: every record has a non-empty brand_name, and a brand_name that is
\* no text of the document is "Unknown Brand", whichever branch gave the
\* record.
C16_UnknownBrandSentinel ==
  \A k \in DOMAIN brands :
    /\ brands[k].brand_name # <<>>
    /\ brands[k].brand_name \notin NamesIn(soup)
         => brands[k].brand_name = UnknownBrand

\* The words in which the colours of brands[k] were looked for.
ScopeText(k) ==
  IF tier = 1 THEN Split(GetText(Body[Emitting[k]])) ELSE Split(SoupText(soup))

\* The patterns that match the code somewhere in the words t.
PatternsOf(code, t) ==
  { f \in 1..3 :
      \E m \in DOMAIN ReFindAll(f, t, 1) : CodeOf(ReFindAll(f, t,
          1)[m]) = code }

\* The name in the first match of pattern f that has the code.
FirstNameOf(code, f, t) ==
  LET all == ReFindAll(f, t, 1)
      m   == CHOOSE i \in DOMAIN all :
               /\ CodeOf(all[i]) = code
               /\ \A j \in 1..(i - 1) : CodeOf(all[j]) # code
  IN  NameOf(all[m])

\* C17: the colours of a record have pairwise different codes, and a code
\* that patterns match in the record's text is kept once, with the name of
\* the first of the patterns in PANTONE_PATTERNS that matches it.
C17_DistinctCodes ==
  \A k \in DOMAIN brands :
    LET colors == brands[k].colors
    IN  /\ \A i, j \in DOMAIN colors :
             i # j => colors[i].color_code # colors[j].color_code
        /\ \A code \in Codes :
             LET fs == PatternsOf(code, ScopeText(k))
             IN  fs # {} =>
                   \E i \in DOMAIN colors :
                     /\ colors[i].color_code = code
                     /\ colors[i].color_name =
                          FirstNameOf(code,
                              CHOOSE f \in fs : \A g \in fs : f <= g,
                                      ScopeText(k))

\* A record of a container whose text all three patterns match for one
\* code, the second with another name than the first.
C17_Witness ==
  /\ tier = 1
  /\ Len(brands) = 1
  /\ PatternsOf("19-4052", ScopeText(1)) = { 1, 2, 3 }
  /\ FirstNameOf("19-4052", 2, ScopeText(1)) = << "TCX", "Classic" >>
  /\ Len(brands[1].colors) = 1
  /\ brands[1].colors[1].color_name = << "Classic", "Blue" >>

\* C18: the second branch gives exactly one record for each url of the
\* document that is not excluded, in the order of their first occurrence,
\* img elements before styles, and all its records have the same colours and
\* the same brand name.
C18_OneRecordPerUrl ==
  tier = 2 =>
    /\ { brands[k].image_url : k \in DOMAIN brands }
         = { Seen[j] : j \in { i \in DOMAIN Seen :
                                 Truthy(Seen[i]) /\ ~ Denied(Seen[i]) } }
    /\ \A k, l \in DOMAIN brands :
         k < l =>
           /\ brands[k].image_url # brands[l].image_url
           /\ \E i \in DOMAIN Seen :
                /\ Seen[i] = brands[k].image_url
                /\ \A j \in 1..i : Seen[j] # brands[l].image_url
    /\ \A k \in DOMAIN brands :
         /\ brands[k].colors = brands[1].colors
         /\ brands[k].brand_name = brands[1].brand_name

\* Two records, for the url of an img and then that of a style, from a
\* document that names an excluded url and then one url twice.
C18_Witness ==
  /\ tier = 2
  /\ Len(brands) = 2
  /\ brands[1].image_url = RefB
  /\ brands[2].image_url = UrlJoin(RefA)
  /\ Len(Seen) = 4
  /\ Denied(Seen[1])
  /\ Seen[2] = Seen[4]
  /\ brands[1].colors # <<>>


(* ------------------------- main: the download block -------------------- *)

\* An image_url that is the empty string.
NoUrl == [host |-> "", name |-> "", ext |-> ""]

\* The records main has collected from parse_designer_page when it leaves
\* the browser block: each as its constructor made it, with the url of its
\* image.
Collected ==
  UNION { [1..k -> { DesignerBrand(UnknownBrand, url, PageUrl, <<>>) :
                       url \in Urls }] : k \in 0..MaxBrands }

\* main.py line 207: [brand.image_url for brand in all_brands if
\* brand.image_url]
RECURSIVE ImageUrls(_)
ImageUrls(list) ==
  IF list = <<>> THEN <<>>
  ELSE IF Head(list).image_url # NoUrl
         THEN << Head(list).image_url >> \o ImageUrls(Tail(list))
         ELSE ImageUrls(Tail(list))

\* An assignment that keeps None.
OrNone(path) == path

\* main.py line 217: download_results[brand.image_url] or ""
OrEmpty(path) == IF path = None THEN EmptyPath ELSE path

\* main.py lines 151-154 and 198: a downloader was made, the pages were
\* parsed, and main stands before line 204.
InitMain ==
  /\ NewDownloader
  /\ all_brands \in Collected
  /\ main_pc = [at |-> "parsed", i |-> 0]
  /\ soup = [title |-> <<>>, body |-> <<>>]
  /\ containers = <<>>
  /\ tier = 0
  /\ brands = <<>>
  /\ returned = <<>>
  /\ image_url = EmptyUrl
  /\ valid = <<>>

\* Lines 204-211: with records, and neither --no-download nor --dry-run,
\* main calls downloader.download_all(image_urls) and waits in it.
CallDownloadAll ==
  /\ main_pc.at = "parsed"
  /\ last = "none"
  /\ all_brands # <<>>
  /\ ImageUrls(all_brands) # <<>>
  /\ StartBatch(ImageUrls(all_brands))

\* Lines 204 and 221-224: no record, or one of the two arguments is given,
\* and the block is left without a call.
SkipDownload ==
  /\ main_pc.at = "parsed"
  /\ last = "none"
  /\ \E no_download, dry_run \in BOOLEAN :
       all_brands = <<>> \/ no_download \/ dry_run
  /\ main_pc' = [at |-> "skipped", i |-> 0]
  /\ UNCHANGED retriever
  /\ UNCHANGED <<soup, containers, tier, brands, all_brands, returned,
                 image_url, valid>>

\* Lines 215-217, one turn of the loop, after download_all has returned:
\* the next record's local_image_path is assigned if its url is a key.
UpdateLocalPath ==
  /\ main_pc.at \in {"parsed", "updating"}
  /\ phase = "idle"
  /\ last = "returned"
  /\ main_pc.i < Len(all_brands)
  /\ LET k == main_pc.i + 1
         brand == all_brands[k]
     IN  /\ main_pc' = [at |-> "updating", i |-> k]
         /\ all_brands' =
              IF brand.image_url \in DOMAIN result_map
                THEN [all_brands EXCEPT ![k].local_image_path =
                        OrEmpty(result_map[brand.image_url])]
                ELSE all_brands
  /\ UNCHANGED retriever
  /\ UNCHANGED <<soup, containers, tier, brands, returned, image_url, valid>>

\* Lines 219-220 and 227 on: after the loop, or after the skipped block,
\* main reads the statistics and exports the records.
Export ==
  /\ \/ main_pc.at = "skipped"
     \/ /\ main_pc.at \in {"parsed", "updating"}
        /\ phase = "idle"
        /\ last = "returned"
        /\ main_pc.i = Len(all_brands)
  /\ main_pc' = [at |-> "exported", i |-> main_pc.i]
  /\ UNCHANGED retriever
  /\ UNCHANGED <<soup, containers, tier, brands, all_brands, returned,
                 image_url, valid>>

NextMain ==
  \/ CallDownloadAll
  \/ SkipDownload
  \/ \E i \in Indices : Begin(i)
  \/ \E i \in Indices : Respond200(i)
  \/ \E i \in Indices : RespondNot200(i)
  \/ \E i \in Indices : NetworkRaises(i)
  \/ \E i \in Indices : Save(i)
  \/ \E i \in Indices : WriteRaises(i)
  \/ ReturnBatch
  \/ UpdateLocalPath
  \/ Export

SpecMain == InitMain /\ [][NextMain]_vars

\* The records whose turn in the loop of lines 215-217 has come.
Assigned ==
  IF main_pc.at \in {"updating", "exported"} THEN 1..main_pc.i ELSE {}

\* download_all has returned to main.
Retrieved == phase = "idle" /\ last = "returned"

\* What the retrieval gave for a url: the path the mapping holds for it, or
\* the empty string when it holds None.
Yielded(map, url) == IF map[url] = None THEN EmptyPath ELSE map[url]

\* C19: a record's local_image_path is empty until download_all has
\* returned and main's loop has come to the record; no step of the
\* downloader changes a record; a step that changes the records is a turn of
\* main's loop after the call has returned, it is the one turn of that
\* record, it changes nothing but the record's local_image_path, and the
\* record then holds the mapped path, or the empty string when the url is
\* mapped to None; so a non-empty local_image_path is the path of a
\* coroutine of that url which returned one.
C19_LocalPathSetAfterBatch ==
  [][ /\ \A k \in DOMAIN all_brands' :
           k \notin Assigned' => all_brands'[k].local_image_path = EmptyPath
      /\ retriever' # retriever => all_brands' = all_brands
      /\ Assigned' # {} => Retrieved'
      /\ Assigned' # Assigned =>
           /\ Retrieved
           /\ Assigned' = Assigned \cup {main_pc.i + 1}
           /\ main_pc.i + 1 \notin Assigned
           /\ \A k \in DOMAIN all_brands :
                k # main_pc.i + 1 => all_brands'[k] = all_brands[k]
           /\ [all_brands' EXCEPT
                 ![main_pc.i + 1].local_image_path = EmptyPath] = all_brands
      /\ Assigned' = Assigned => all_brands' = all_brands
      /\ \A k \in Assigned' :
           /\ all_brands'[k].image_url \in DOMAIN result_map'
           /\ all_brands'[k].local_image_path
                = Yielded(result_map', all_brands'[k].image_url)
           /\ all_brands'[k].local_image_path # EmptyPath =>
                \E i \in Indices' :
                  /\ tasks'[i].url = all_brands'[k].image_url
                  /\ Ok(i)'
                  /\ tasks'[i].path = all_brands'[k].local_image_path ]_vars

\* main has exported two records after a call in which the first record's
\* url was saved and the second's was answered with an error: the first
\* holds the saved path and the second the empty string.
C19_Witness ==
  /\ main_pc = [at |-> "exported", i |-> 2]
  /\ Len(all_brands) = 2
  /\ all_brands[1].local_image_path # EmptyPath
  /\ all_brands[1].local_image_path = result_map[all_brands[1].image_url]
  /\ result_map[all_brands[2].image_url] = None
  /\ all_brands[2].local_image_path = EmptyPath
  /\ tasks[1].res = "saved"
  /\ tasks[2].res = "non200"


(* -------------------------- download_single_sync ----------------------- *)

\* download_single_sync blocks its caller, so one call is under way at most;
\* it is kept as the one element of tasks, with phase = "sync" while it
\* runs.  Its pc is "getting" inside requests.get and "streaming" inside the
\* with block of lines 279-281.

\* Lines 256-276: the history, the filepath, and the request.
SyncCall(url) ==
  /\ UNCHANGED others
  /\ phase = "idle"
  /\ spawned < MaxCalls
  /\ spawned' = spawned + 1
  /\ urls' = << url >>
  /\ snap' = [history |-> download_history, files |-> files,
              downloaded |-> downloaded_count, failed |-> failed_count]
  /\ LET filename == GetFilenameFromUrl(url)
         filepath == GetUniqueFilepath(filename)
     IN  IF InHistory(url)
           THEN /\ tasks' = << [NewTask(url) EXCEPT
                                  !.pc = "done", !.res = "hit",
                                  !.path = download_history[url]] >>
                /\ phase' = "idle"
                /\ last' = "sync"
                /\ UNCHANGED download_history
           ELSE IF Exists(filepath)
             THEN /\ download_history' = (url :> filepath) @@ download_history
                  /\ tasks' = << [NewTask(url) EXCEPT
                                    !.pc = "done", !.res = "exists",
                                    !.path = filepath,
                                    !.found = Exists(PathOf(filename, 0))] >>
                  /\ phase' = "idle"
                  /\ last' = "sync"
             ELSE /\ tasks' = << [NewTask(url) EXCEPT
                                    !.pc = "getting", !.sent = TRUE,
                                    !.path = filepath,
                                    !.found = Exists(PathOf(filename, 0))] >>
                  /\ phase' = "sync"
                  /\ last' = "started"
                  /\ UNCHANGED download_history
  /\ UNCHANGED <<concurrent_downloads, files, downloaded_count, failed_count,
                 sem, result_map>>

\* Lines 278-279: status 200, and open(filepath, 'wb') creates the file, or
\* empties the one that is there.
SyncOpen ==
  /\ UNCHANGED others
  /\ phase = "sync"
  /\ tasks[1].pc = "getting"
  /\ files' = TruncateFile(tasks[1].path, tasks[1].url)
  /\ tasks' = [tasks EXCEPT ![1] = [@ EXCEPT !.pc = "streaming"]]
  /\ UNCHANGED <<concurrent_downloads, downloaded_count, failed_count,
                 download_history, phase, urls, sem, result_map, spawned,
                 last, snap>>

\* Lines 280-286: the last chunk is written, the file is closed, the
\* download is counted and remembered.
SyncSave ==
  /\ UNCHANGED others
  /\ phase = "sync"
  /\ tasks[1].pc = "streaming"
  /\ files' = WriteFile(tasks[1].path, tasks[1].url)
  /\ downloaded_count' = downloaded_count + 1
  /\ download_history' = (tasks[1].url :> tasks[1].path) @@ download_history
  /\ tasks' = [tasks EXCEPT ![1] = [@ EXCEPT !.pc = "done", !.res = "saved"]]
  /\ phase' = "idle"
  /\ last' = "sync"
  /\ UNCHANGED <<concurrent_downloads, failed_count, urls, sem, result_map,
                 spawned, snap>>

\* Lines 287-290: any other status.
SyncNot200 ==
  /\ UNCHANGED others
  /\ phase = "sync"
  /\ tasks[1].pc = "getting"
  /\ tasks' = Failed(1, "non200")
  /\ failed_count' = failed_count + 1
  /\ phase' = "idle"
  /\ last' = "sync"
  /\ UNCHANGED <<concurrent_downloads, files, downloaded_count,
                 download_history, urls, sem, result_map, spawned, snap>>

\* Lines 292-299: requests.Timeout or another exception, raised by
\* requests.get, by open, or by iter_content or f.write while the body is
\* streamed into the file; the with block closes the file and what was
\* written stays.
SyncRaises ==
  /\ UNCHANGED others
  /\ phase = "sync"
  /\ tasks[1].pc \in {"getting", "streaming"}
  /\ tasks' = Failed(1, "raised")
  /\ failed_count' = failed_count + 1
  /\ phase' = "idle"
  /\ last' = "sync"
  /\ UNCHANGED <<concurrent_downloads, files, downloaded_count,
                 download_history, urls, sem, result_map, spawned, snap>>

NextSync ==
  \/ \E url \in Urls : SyncCall(url)
  \/ SyncOpen
  \/ SyncSave
  \/ SyncNot200
  \/ SyncRaises

SpecSync == Init /\ [][NextSync]_vars

\* download_single_sync has returned.
SyncReturned == phase = "idle" /\ last = "sync" /\ tasks # <<>>

\* C21 as stated: a call of download_single_sync that ended in failure has
\* left the directory as it was when the call began, has added one to
\* failed_count and nothing to downloaded_count, has left the history as it
\* was, and has returned None.
C21_FailureLeavesNothing ==
  (SyncReturned /\ Bad(1)) =>
    /\ files = snap.files
    /\ failed_count = snap.failed + 1
    /\ downloaded_count = snap.downloaded
    /\ download_history = snap.history
    /\ Ret(tasks[1]) = None


(* ------------------------ counters and history ------------------------- *)

\* The coroutines of the call that called session.get and have ended.
Attempts(ts) == { i \in DOMAIN ts : ts[i].sent /\ ts[i].pc = "done" }

CodesOf(colors) == { colors[j].color_code : j \in DOMAIN colors }

\* The colour the element's data-color and data-hex attributes give, as a
\* list of one colour, or of none.
ColorOfAttributes(e) ==
  IF "data-color" \in DOMAIN e.data
    THEN ParseColorAttribute(e.data["data-color"],
                             IF "data-hex" \in DOMAIN e.data
                               THEN e.data["data-hex"] ELSE <<>>)
    ELSE <<>>

\* C23 as stated: in the first branch the colours of a record are those
\* matched in its container's text together with the colour its container's
\* data-color attribute gives, and their codes are pairwise distinct.
C23_DataAttributeColors ==
  tier = 1 =>
    \A k \in DOMAIN brands :
      LET e == Body[Emitting[k]]
      IN  /\ CodesOf(brands[k].colors)
               = CodesOf(ExtractPantoneFromContainer(e))
                   \cup CodesOf(ColorOfAttributes(e))
          /\ \A i, j \in DOMAIN brands[k].colors :
               i # j => brands[k].colors[i].color_code
                          # brands[k].colors[j].color_code


(* ------------------------------- aborting ------------------------------ *)

\* The task that awaits download_all_async is cancelled while the call
\* runs: gather cancels every coroutine that has not ended, each receives
\* CancelledError at the await it stands at (the semaphore, session.get or
\* response.read), which no except clause of _download_single catches, and
\* 'async with semaphore' gives back the slot of a coroutine that held one.
\* No coroutine stands between open and the end of f.write, which hold no
\* await.
CancelBatch ==
  /\ UNCHANGED others
  /\ phase = "running"
  /\ tasks' = [i \in Indices |->
                 IF tasks[i].pc = "done" THEN tasks[i]
                 ELSE [tasks[i] EXCEPT !.pc = "done", !.res = "cancelled",
                                       !.path = None]]
  /\ sem' = sem + Cardinality(InFlight)
  /\ phase' = "idle"
  /\ last' = "cancelled"
  /\ UNCHANGED <<concurrent_downloads, files, downloaded_count, failed_count,
                 download_history, urls, result_map, spawned, snap>>

\* KeyboardInterrupt (main.py line 254 handles it) reaches
\* download_single_sync inside requests.get or while the body is streamed:
\* 'except Exception' does not catch it, the with block closes the file, and
\* what was written stays.
SyncInterrupted ==
  /\ UNCHANGED others
  /\ phase = "sync"
  /\ tasks[1].pc \in {"getting", "streaming"}
  /\ tasks' = [tasks EXCEPT ![1] = [@ EXCEPT !.pc = "done",
                                             !.res = "cancelled"]]
  /\ phase' = "idle"
  /\ last' = "interrupted"
  /\ UNCHANGED <<concurrent_downloads, files, downloaded_count, failed_count,
                 download_history, urls, sem, result_map, spawned, snap>>

NextAbort ==
  \/ \E list \in UrlLists(MaxLiveTasks - spawned) : StartBatch(list)
  \/ \E i \in Indices : Begin(i)
  \/ \E i \in Indices : Respond200(i)
  \/ \E i \in Indices : RespondNot200(i)
  \/ \E i \in Indices : NetworkRaises(i)
  \/ \E i \in Indices : Save(i)
  \/ \E i \in Indices : WriteRaises(i)
  \/ ReturnBatch
  \/ CancelBatch
  \/ \E url \in Urls : SyncCall(url)
  \/ SyncOpen
  \/ SyncSave
  \/ SyncNot200
  \/ SyncRaises
  \/ SyncInterrupted

SpecAbort == Init /\ [][NextAbort]_vars

\* After a cancelled call of download_all_async no coroutine holds a slot,
\* and the cancellation changed no file.
CancelReleasesSlots ==
  [][ (phase = "running" /\ last' = "cancelled") =>
        /\ sem' = concurrent_downloads
        /\ files' = files
        /\ \A i \in Indices : tasks'[i].pc = "done" ]_vars

\* C24 as stated: after a call was aborted, at whatever point, the slots of
\* the semaphore are all free and every file of the directory holds a whole
\* body: a file is written in one step from a body that was read into
\* memory, never piece by piece.
C24_AbortLeavesNoPartialFile ==
  /\ last = "cancelled" => sem = concurrent_downloads
  /\ last \in {"cancelled", "interrupted"} =>
        \A p \in DOMAIN files : files[p].whole


(* --------------------------- history entries --------------------------- *)

\* C25 as stated: no step removes a url from the history or replaces the
\* path the history holds for it by another path.
C25_HistoryPathStable ==
  [][ \A url \in DOMAIN download_history :
        /\ url \in DOMAIN download_history'
        /\ download_history'[url] = download_history[url] ]_vars


(* ------------------------- the files of the mapping -------------------- *)

\* C26 as stated: when download_all_async has returned, every url the
\* mapping gives a path has at that path a file that holds the whole body
\* fetched for that url.
C26_MappedFileHoldsOwnBody ==
  Returned =>
    \A url \in DOMAIN result_map :
      result_map[url] # None =>
        /\ result_map[url] \in DOMAIN files
        /\ files[result_map[url]] = [of |-> url, whole |-> TRUE]


(* --------------------------- failures and history ---------------------- *)

\* Coroutine i ends in this step.
Ends(i) == tasks[i].pc # "done" /\ tasks'[i].pc = "done"

DownloadFirst ==
  /\ last = "none"
  /\ \E list \in UrlLists(MaxTasks) : StartBatch(list)

\* reset_stats() after a call has returned.
ResetAfterCall ==
  /\ last = "returned"
  /\ ResetStats

\* The second call, after reset_stats, with the list of the first.
DownloadAgain ==
  /\ last = "reset"
  /\ spawned = Len(urls)
  /\ StartBatch(urls)

NextReset ==
  \/ DownloadFirst
  \/ \E i \in Indices : Begin(i)
  \/ \E i \in Indices : Respond200(i)
  \/ \E i \in Indices : RespondNot200(i)
  \/ \E i \in Indices : NetworkRaises(i)
  \/ \E i \in Indices : Save(i)
  \/ \E i \in Indices : WriteRaises(i)
  \/ ReturnBatch
  \/ ResetAfterCall
  \/ DownloadAgain

SpecReset == Init /\ [][NextReset]_vars

\* The call under way, or the one that returned, is the second.
Again == tasks # <<>> /\ spawned = 2 * Len(tasks)

\* C28 as stated: reset_stats changes the two counters and nothing else of
\* the retriever, not the history and not the directory; and when every
\* coroutine of the first call ended with a path, the second call finds for
\* every url the path the first call returned for it, calls session.get for
\* none, returns these paths, and get_download_stats reports downloaded = 0,
\* failed = 0, total = 0 after it.
C28_ResetKeepsHistoryAndFiles ==
  [][ /\ last' = "reset" =>
           /\ download_history' = download_history
           /\ files' = files
           /\ result_map' = result_map
           /\ tasks' = tasks
      /\ (last = "reset" /\ last' = "started" /\ \A i \in Indices : Ok(i)) =>
           \A url \in DOMAIN result_map :
             /\ url \in DOMAIN snap'.history
             /\ snap'.history[url] = result_map[url]
      /\ (Again' /\ \A i \in Indices' : tasks'[i].url \in DOMAIN snap'.history) =>
           /\ \A i \in Indices' : ~ tasks'[i].sent
           /\ files' = snap'.files
           /\ GetDownloadStats' = [downloaded |-> 0, failed |-> 0,
               total |-> 0]
           /\ Returned' =>
                \A url \in Requested' :
                  result_map'[url] = snap'.history[url] ]_vars


(* --------------------- containers without an image --------------------- *)

\* A selector selects an element, and no element the first selecting
\* selector selects has a first img with a url.
OnlyEmptyContainers ==
  /\ Selecting # {}
  /\ LET first == CHOOSE k \in Selecting : \A j \in Selecting : k <= j
     IN  \A j \in DOMAIN Body :
           Selectors[first] \in Body[j].match => ~ HasMedia(Body[j])

\* C29: when a selector selects an element and none of the containers has
\* an image url, parse_designer_page returns the empty list from its first
\* branch and the second branch is not taken, whatever images and colours
\* the rest of the document holds.
C29_NoFallbackAfterEmptyTier1 ==
  (tier # 0 /\ OnlyEmptyContainers) =>
    /\ tier = 1
    /\ containers # <<>>
    /\ brands = <<>>

\* A document of a container without img and an element outside of it that
\* has an image and colours: nothing is returned, and the second branch
\* would have returned a record with a colour.
C29_Witness ==
  /\ tier = 1
  /\ OnlyEmptyContainers
  /\ brands = <<>>
  /\ Len(Body) = 2
  /\ containers = << 1 >>
  /\ Tier2(soup, PageUrl) # <<>>
  /\ Tier2(soup, PageUrl)[1].colors # <<>>


(* ---------------------- where the filter is applied -------------------- *)

\* C30: the first branch gives every container whose first img has a url a
\* record with that url, resolved, whether or not _is_valid_image accepts
\* it; only the second branch drops the urls _is_valid_image rejects.  So a
\* record of the first branch can have an image_url that is rejected.
C30_FilterOnlyInFallback ==
  /\ tier = 1 =>
       /\ Len(brands) = Len(Emitting)
       /\ \A k \in DOMAIN brands :
            brands[k].image_url = GetImageUrl(Body[Emitting[k]].imgs[1])
  /\ tier = 2 =>
       \A k \in DOMAIN brands : ~ Denied(brands[k].image_url)

\* A container whose img is an icon has a record with the icon's url, which
\* _is_valid_image rejects.
C30_Witness ==
  /\ tier = 1
  /\ \E k \in DOMAIN brands :
       /\ Denied(brands[k].image_url)
       /\ ~ IsValidImage(brands[k].image_url)
       /\ brands[k].image_url = UrlJoin(RefIcon)

====
